---- MODULE Spec2Model ----
(***************************************************************************)
(* A state-machine model of the Saviour client screens: the employee city  *)
(* chat (ChatScreen), the profile screens and the helper formatters.       *)
(* The backend (document store, auth, storage) is the environment: every   *)
(* request a screen starts is in flight until the environment lets it      *)
(* succeed or fail.                                                        *)
(***************************************************************************)
EXTENDS Integers, Sequences, FiniteSets, TLC

None == "none"

\* ------------------------------------------------------------------ bounds
\* Message documents ever created in the store.
MaxMsgs == 2
\* Read-receipt updates in flight at once.
MaxPending == 2
\* Profile writes (toggle, save) in flight at once.
MaxWrites == 3

\* ------------------------------------------------------------ environment
Devices == {"d1", "d2"}
Cities == {"pune", "goa"}
\* The route's city parameter: the dashboard passes employee?.city || "".
RouteCities == Cities \cup {""}
Uids == {"e1", "e2", "e3", "v1", "g1"}
\* users/{uid}: e1, e2 and e3 are employees, v1 has another role, g1 has no
\* document.
UsersDoc ==
  [u \in Uids |->
     CASE u = "e1" -> [exists |-> TRUE, role |-> "employee"]
       [] u = "e2" -> [exists |-> TRUE, role |-> "employee"]
       [] u = "e3" -> [exists |-> TRUE, role |-> "employee"]
       [] u = "v1" -> [exists |-> TRUE, role |-> "user"]
       [] OTHER -> [exists |-> FALSE, role |-> None]]
\* The accounts a device signs in with.
Accounts(d) == IF d = "d1" THEN {"e1", "v1", "g1"} ELSE {"e2"}

\* Texts typed into the chat input, as sequences of characters.
Texts == {<<>>, <<" ">>, <<"a">>}
MediaKinds == {"image", "video", "audio", "file"}

VARIABLES
  \* ---- backend
  authUser,    \* device -> uid signed in with Firebase Auth, or None
  msgs,        \* the messages collection: sequence of documents, id = index
  adds,        \* addDoc requests in flight
  upds,        \* updateDoc(readBy) requests in flight
  uploads,     \* media/audio uploads in flight
  \* ---- ChatScreen instance per device
  mounted,     \* device -> the chat screen is on the navigation stack
  city,        \* device -> route parameter city
  authNotify,  \* device -> the auth listener has a state change to report
  gets,        \* device -> getDoc(users/uid) requests in flight
  user,        \* device -> ChatScreen user state (uid) or None
  subs,        \* device -> active onSnapshot listeners
  dirty,       \* device -> a snapshot is waiting to be delivered
  messages,    \* device -> ChatScreen messages state
  isLoading,   \* device -> ChatScreen isLoading state
  gate,        \* device -> outcome of the role gate for this instance
  lastMarked,  \* device -> updates issued by the last markMessagesAsRead call
  lastFail,    \* the last failed backend operation and the alert it raised
  \* ---- ProfileScreen / AdminProfileScreen
  pKind,         \* "user": ProfileScreen, "admin": AdminProfileScreen
  pAuth,         \* uid signed in with Firebase Auth, or None
  pNotify,       \* the auth listener has a state to report
  pRoute,        \* "profile": the screen is mounted, "login": replaced
  pUser,         \* user state
  pLoading,      \* loading state
  pFetch,        \* fetchProfile's getDoc is in flight
  pSaving,       \* saving state
  pName,         \* name state
  notifications, \* notifications state
  sDoc,          \* the stored users/{uid} document
  pWrites,       \* updateDoc requests in flight, in the order issued
  pReport,       \* what the auth listener reported last to this instance
  pAlert,        \* the alert shown last
  pOutcome,      \* how the write settled last ended: "ok" or "failed"
  \* ---- ChatScreen.renderMessage, metadata line of a message
  meta,          \* the metadata field rendered and its value
  shown,         \* the text rendered for it, <<>> before the render
  \* ---- ChatScreen onSnapshot callback, one document of any content
  docData,      \* docSnap.data(): field -> value, undefined when absent
  messagesData, \* the array the callback pushes the mapped entry into
  \* ---- EmployeeDashboard and the sos_requests collection
  sos,            \* the sos_requests documents, by id; createdAt -1: no field, 0: null
  now,            \* the device clock
  employee,       \* employee state: the uid of the users document, or None
  dirtyAll,       \* the all-requests listener has a snapshot to deliver
  dirtyMine,      \* the handled-requests listener has a snapshot to deliver
  sosRequests,    \* sosRequests state
  loading,        \* loading state
  handledCount,   \* handledCount state
  recentActivity, \* recentActivity state
  myResponded,    \* myResponded state
  todaysAlerts,   \* todaysAlerts as computed by the last render
  badge,          \* the text of the section badge at the last render
  cards,          \* the ids of the alert cards rendered last
  \* ---- ProfileScreen / AdminProfileScreen dialogs
  modal,         \* modal state: the ModalInput shown, or None
  modalCallback, \* modalCallback state: the closure the modal submits to
  dAlert,        \* the alert shown last
  blockedUsers,  \* blockedUsers state
  sBlocked,      \* the stored blockedUsers field of users/{uid}
  bMenu,         \* the Blocked Users alert: <<list>> its handlers closed over, or <<>>
  bWrites,       \* updateDoc requests for blockedUsers in flight, in the order issued
  bOutcome,      \* how the blockedUsers write settled last ended
  pwTimers,      \* setTimeout callbacks pending, each with its oldPassword
  authOps,       \* reauthenticate / updatePassword calls in flight, one per flow
  sPassword,     \* the account's password at the auth backend
  logoutAlert,   \* the Confirm Logout alert: None, "open", or the button pressed
  signOuts,      \* signOut calls in flight
  \* ---- ProfileScreen profile photo
  photo,          \* photo state: the URL shown, <<>> for null
  photoUploading, \* photoUploading state
  pick,           \* pickImage: where it waits, its photo, fileName and downloadUrl
  picks,          \* images picked so far (Date.now() of the file name)
  sPhotoUrl,      \* photoUrl of users/{uid}
  objects,        \* objects under profile_photos/ in storage
  phAlert,        \* last alert of pickImage
  \* ---- HomeScreen, the weather/{uid} document and the name field of users/{uid}
  hUser,      \* user of useAuth(): a uid or None
  hEmail,     \* user.email as <<local part, "@", domain>>, <<>> for none
  sName,      \* the name field of users/{uid}, "" when absent
  sWeather,   \* weather/{uid}: <<>> when absent, else <<coordinates>>
  profile,    \* profile state: <<>> for null, else <<document data>>
  weather,    \* weather state: <<>> for null, else <<response data>>
  location,   \* location state: <<>> for null, else <<coordinates>>
  refreshing, \* refreshing state
  fetch,      \* fetchAll: where it waits, who called it, coords and latestCoords
  fetches,    \* fetchAll calls so far
  hAlert,     \* last alert of the Home screen
  \* ---- ProfileScreen / AdminProfileScreen text fields beside the name
  contact,  \* contact state
  medical,  \* medical state (ProfileScreen)
  sContact, \* the contact field of users/{uid}
  sMedical, \* the medical field of users/{uid}
  \* ---- ProfileScreen abuse reports and the abuse_reports collection
  reports,  \* addDoc(abuse_reports) requests in flight: their descriptions
  sReports  \* the descriptions stored in abuse_reports

chatVars == <<authUser, msgs, adds, upds, uploads, mounted, city, authNotify,
              gets, user, subs, dirty, messages, isLoading, gate, lastMarked,
              lastFail>>

profVars == <<pKind, pAuth, pNotify, pRoute, pUser, pLoading, pFetch, pSaving,
              pName, notifications, sDoc, pWrites, pReport, pAlert, pOutcome>>

fmtVars == <<meta, shown>>

mapVars == <<docData, messagesData>>

dashVars == <<sos, now, employee, dirtyAll, dirtyMine, sosRequests, loading,
               handledCount, recentActivity, myResponded, todaysAlerts,
               badge, cards>>

dlgVars == <<modal, modalCallback, dAlert, blockedUsers, sBlocked, bMenu,
              bWrites, bOutcome, pwTimers, authOps, sPassword, logoutAlert,
              signOuts>>

phoVars == <<photo, photoUploading, pick, picks, sPhotoUrl, objects, phAlert>>

homeVars == <<hUser, hEmail, sName, sWeather, profile, weather, location,
               refreshing, fetch, fetches, hAlert>>

fldVars == <<contact, medical, sContact, sMedical>>

repVars == <<reports, sReports>>

\* Every variable, and for each screen the variables of the other screens.
vars == <<chatVars, profVars, fmtVars, mapVars, dashVars, dlgVars, phoVars,
    homeVars, fldVars, repVars>>

offChat == <<profVars, fmtVars, mapVars, dashVars, dlgVars, phoVars,
    homeVars, fldVars, repVars>>

offProf == <<chatVars, fmtVars, mapVars, dashVars, dlgVars, phoVars,
    homeVars, fldVars, repVars>>

offFmt == <<chatVars, profVars, mapVars, dashVars, dlgVars, phoVars,
    homeVars, fldVars, repVars>>

offMap == <<chatVars, profVars, fmtVars, dashVars, dlgVars, phoVars,
    homeVars, fldVars, repVars>>

offDash == <<chatVars, profVars, fmtVars, mapVars, dlgVars, phoVars,
    homeVars, fldVars, repVars>>

offDlg == <<chatVars, profVars, fmtVars, mapVars, dashVars, phoVars,
    homeVars, fldVars, repVars>>

offPho == <<chatVars, profVars, fmtVars, mapVars, dashVars, dlgVars,
    homeVars, fldVars, repVars>>

offHome == <<chatVars, profVars, fmtVars, mapVars, dashVars, dlgVars,
    phoVars, fldVars, repVars>>

offFld == <<chatVars, profVars, fmtVars, mapVars, dashVars, dlgVars, phoVars,
    homeVars, repVars>>

offRep == <<chatVars, profVars, fmtVars, mapVars, dashVars, dlgVars, phoVars,
    homeVars, fldVars>>

besideDlg == <<chatVars, fmtVars, mapVars, dashVars, phoVars, homeVars,
    fldVars, repVars>>

besidePho == <<chatVars, fmtVars, mapVars, dashVars, dlgVars, homeVars,
    fldVars, repVars>>

besideHome == <<chatVars, fmtVars, mapVars, dashVars, dlgVars, phoVars,
    fldVars, repVars>>

besideFld == <<chatVars, fmtVars, mapVars, dashVars, dlgVars, phoVars,
    homeVars, repVars>>

besideRep == <<chatVars, fmtVars, mapVars, dashVars, dlgVars, phoVars,
    homeVars, fldVars>>

\* ------------------------------------------------------------ pure helpers
RECURSIVE TrimLeft(_)
TrimLeft(s) ==
  IF s = <<>> THEN <<>>
  ELSE IF Head(s) = " " THEN TrimLeft(Tail(s)) ELSE s

RECURSIVE TrimRight(_)
TrimRight(s) ==
  IF s = <<>> THEN <<>>
  ELSE IF s[Len(s)] = " " THEN TrimRight(SubSeq(s, 1, Len(s) - 1)) ELSE s

\* String.prototype.trim
Trim(s) == TrimRight(TrimLeft(s))

Range(s) == {s[i] : i \in 1..Len(s)}

Includes(s, x) == \E i \in 1..Len(s) : s[i] = x

\* `a || b` on strings: the right operand when the left is absent or empty.
OrElse(v, dflt) == IF v = None \/ v = "" THEN dflt ELSE v

\* ------------------------------------------------------ the message store
Ids == 1..Len(msgs)

\* orderBy('timestamp', 'asc'); equal timestamps are ordered by document id.
Before(i, j) ==
  \/ msgs[i].timestamp < msgs[j].timestamp
  \/ msgs[i].timestamp = msgs[j].timestamp /\ i <= j

RECURSIVE SortAsc(_)
SortAsc(S) ==
  IF S = {} THEN <<>>
  ELSE LET m == CHOOSE i \in S : \A j \in S : Before(i, j)
       IN <<m>> \o SortAsc(S \ {m})

\* query(messagesRef, where('city', '==', c), orderBy('timestamp', 'asc')):
\* documents without the ordered field are not part of the result.
\* The query without its where clause.
QueryFilter_AllCities(c, i) == msgs[i].timestamp > 0

QueryFilter(c, i) == msgs[i].city = c /\ msgs[i].timestamp > 0

Query(c) == SortAsc({i \in Ids : QueryFilter(c, i)})

\* The document mapping of the onSnapshot callback.
MapDoc(i) ==
  [id |-> i,
   senderId |-> OrElse(msgs[i].senderId, ""),
   city |-> OrElse(msgs[i].city, ""),
   content |-> msgs[i].content,
   type |-> OrElse(msgs[i].type, "text"),
   timestamp |-> msgs[i].timestamp,
   readBy |-> msgs[i].readBy]

\* snapshot.forEach(...) pushing into a fresh messagesData array.
SnapshotData(c) == LET q == Query(c) IN [k \in 1..Len(q) |-> MapDoc(q[k])]

\* The filter without its readBy test.
IsUnread_NoReadByTest(m, uid) == m.senderId # uid

\* msgs.filter(senderId !== user.uid && !readBy.includes(user.uid))
IsUnread(m, uid) == m.senderId # uid /\ ~Includes(m.readBy, uid)

\* A patch that holds the viewer alone.
ReadByPatch_Only(m, uid) == <<uid>>

\* readBy: [...message.readBy, user.uid]
ReadByPatch(m, uid) == Append(m.readBy, uid)

\* markMessagesAsRead(msgs): the updateDoc calls it batches.
MarkMessagesAsRead(data, uid) ==
  IF uid = None THEN {}
  ELSE {[id |-> data[k].id, readBy |-> ReadByPatch(data[k], uid)] :
          k \in {n \in 1..Len(data) : IsUnread(data[n], uid)}}

\* The document every send handler passes to addDoc; serverTimestamp() is
\* resolved by the backend when the write commits (0 until then).
\* A new document whose readBy starts empty.
NewReadBy_Empty(uid) == <<>>

NewReadBy(uid) == <<uid>>

NewDoc(uid, c, type, content) ==
  [senderId |-> uid, city |-> c, type |-> type, content |-> content,
   timestamp |-> 0, readBy |-> NewReadBy(uid)]

\* The media kind stored as it is.
MediaType_Same(kind) == kind

\* type: media.type === 'file' ? 'document' : media.type
MediaType(kind) == IF kind = "file" THEN "document" ELSE kind

\* The alert the catch block of an operation shows, None when the failure is
\* only logged (console.error) or not caught at all.
AlertOnFail(op) ==
  CASE op = "send" -> "Failed to send message"
    [] op = "media" -> "Failed to send media"
    [] op = "audio" -> "Failed to send audio"
    [] OTHER -> None

\* Listeners whose query result a change of a document of city c touches.
Touched_Nobody(c) == dirty

Touched(c) == [d \in Devices |->
                 dirty[d] \/ \E k \in 1..Len(subs[d]) : subs[d][k].city = c]

InFlight == Cardinality(adds) + Cardinality(uploads)

\* ---------------------------------------------------------- ChatScreen
\* if (!text.trim() || !user || !city) return
SendGuard(d, text) == Trim(text) # <<>> /\ user[d] # None /\ city[d] # ""

\* if (!user || !city) return
MediaGuard(d) == user[d] # None /\ city[d] # ""

\* The cleanup the messages effect returns: the previous listener is removed.
EffectCleanup(s) == <<>>

\* if (!city || !user) return
SubscribeGuard(c, u) == c # "" /\ u # None

\* The messages effect, run when [city, user] changed.
MessagesEffect(s, c, u) ==
  IF SubscribeGuard(c, u)
  THEN Append(EffectCleanup(s), [city |-> c, uid |-> u])
  ELSE EffectCleanup(s)

\* The gate without its role test.
RoleAllowed_AnyRole(doc) == TRUE

\* userData.role !== 'employee' decides between router.back() and setUser.
RoleAllowed(doc) == doc.role = "employee"

\* The screen leaves the navigation stack: both effects' cleanups run and the
\* component state is gone; requests already started are not cancelled.
Unmount(d) ==
  /\ mounted' = [mounted EXCEPT ![d] = FALSE]
  /\ user' = [user EXCEPT ![d] = None]
  /\ subs' = [subs EXCEPT ![d] = <<>>]
  /\ dirty' = [dirty EXCEPT ![d] = FALSE]
  /\ messages' = [messages EXCEPT ![d] = <<>>]
  /\ isLoading' = [isLoading EXCEPT ![d] = TRUE]
  /\ authNotify' = [authNotify EXCEPT ![d] = FALSE]
  /\ lastMarked' = [lastMarked EXCEPT ![d] = {}]
  /\ adds' = {IF a.by = d THEN [a EXCEPT !.live = FALSE] ELSE a : a \in adds}
  /\ uploads' = {IF a.by = d THEN [a EXCEPT !.live = FALSE] ELSE a : a \in uploads}

\* Requests of an instance that is gone: their setState calls do nothing.
Stale(G) == {[g EXCEPT !.live = FALSE] : g \in G}

\* router.back(): the chat screen, pushed by the dashboard, is popped. G are
\* the getDoc requests of the device still in flight.
RouterBack(d, G) ==
  IF mounted[d]
  THEN /\ Unmount(d)
       /\ gets' = [gets EXCEPT ![d] = Stale(G)]
  ELSE /\ gets' = [gets EXCEPT ![d] = G]
       /\ UNCHANGED <<mounted, user, subs, dirty, messages, isLoading,
                      authNotify, lastMarked, adds, uploads>>

\* ----------------------------------------------------------- navigation
\* The dashboard pushes the chat route with its city parameter; the auth
\* effect registers its listener, which first reports the current state.
OpenChat(d, c) ==
  /\ ~mounted[d]
  /\ mounted' = [mounted EXCEPT ![d] = TRUE]
  /\ city' = [city EXCEPT ![d] = c]
  /\ authNotify' = [authNotify EXCEPT ![d] = TRUE]
  /\ gate' = [gate EXCEPT ![d] = "pending"]
  /\ UNCHANGED <<authUser, msgs, adds, upds, uploads, gets, user, subs, dirty,
                 messages, isLoading, lastMarked, lastFail>>
  /\ UNCHANGED offChat

\* The user leaves the chat with the back button.
LeaveChat(d) ==
  /\ mounted[d]
  /\ Unmount(d)
  /\ gets' = [gets EXCEPT ![d] = Stale(@)]
  /\ UNCHANGED <<authUser, msgs, upds, city, gate, lastFail>>
  /\ UNCHANGED offChat

\* Firebase Auth: the session of a device starts or ends.
SignIn(d, u) ==
  /\ authUser[d] = None
  /\ authUser' = [authUser EXCEPT ![d] = u]
  /\ authNotify' = [authNotify EXCEPT ![d] = mounted[d]]
  /\ UNCHANGED <<msgs, adds, upds, uploads, mounted, city, gets, user, subs,
                 dirty, messages, isLoading, gate, lastMarked, lastFail>>
  /\ UNCHANGED offChat

SignOut(d) ==
  /\ authUser[d] # None
  /\ authUser' = [authUser EXCEPT ![d] = None]
  /\ authNotify' = [authNotify EXCEPT ![d] = mounted[d]]
  /\ UNCHANGED <<msgs, adds, upds, uploads, mounted, city, gets, user, subs,
                 dirty, messages, isLoading, gate, lastMarked, lastFail>>
  /\ UNCHANGED offChat

\* ------------------------------------------------------ auth effect
\* onAuthStateChanged callback: a signed-in user starts getDoc(users/uid),
\* a signed-out one goes back.
AuthReport(d) ==
  /\ mounted[d] /\ authNotify[d]
  /\ IF authUser[d] # None
     THEN /\ gets' = [gets EXCEPT ![d] = @ \cup {[uid |-> authUser[d], live |-> TRUE]}]
          /\ authNotify' = [authNotify EXCEPT ![d] = FALSE]
          /\ UNCHANGED <<mounted, user, subs, dirty, messages, isLoading,
                         lastMarked, adds, uploads, gate>>
     ELSE /\ RouterBack(d, gets[d])
          /\ gate' = [gate EXCEPT ![d] = "denied"]
  /\ UNCHANGED <<authUser, msgs, upds, city, lastFail>>
  /\ UNCHANGED offChat

\* getDoc(userRef).then(...): the role gate.
GetDocResolve(d, g) ==
  /\ g \in gets[d]
  /\ LET doc == UsersDoc[g.uid] IN
     IF doc.exists /\ RoleAllowed(doc)
     THEN \* setUser({ uid, ...userData }); the messages effect runs again
          /\ gets' = [gets EXCEPT ![d] = @ \ {g}]
          /\ IF g.live
             THEN /\ user' = [user EXCEPT ![d] = g.uid]
                  /\ subs' = [subs EXCEPT ![d] = MessagesEffect(@, city[d], g.uid)]
                  /\ dirty' = [dirty EXCEPT ![d] = SubscribeGuard(city[d], g.uid)]
                  /\ isLoading' = [isLoading EXCEPT ![d] =
                                     IF SubscribeGuard(city[d], g.uid) THEN TRUE ELSE @]
                  /\ gate' = [gate EXCEPT ![d] = "granted"]
             ELSE UNCHANGED <<user, subs, dirty, isLoading, gate>>
          /\ UNCHANGED <<mounted, messages, authNotify, lastMarked, adds, uploads>>
     ELSE \* 'Access Denied' or a missing document: router.back()
          /\ RouterBack(d, gets[d] \ {g})
          /\ gate' = [gate EXCEPT ![d] = "denied"]
  /\ UNCHANGED <<authUser, msgs, upds, city, lastFail>>
  /\ UNCHANGED offChat

\* getDoc rejects: the promise chain has no catch.
GetDocFail(d, g) ==
  /\ g \in gets[d]
  /\ gets' = [gets EXCEPT ![d] = @ \ {g}]
  /\ lastFail' = [op |-> "getUser", alert |-> AlertOnFail("getUser")]
  /\ UNCHANGED <<authUser, msgs, adds, upds, uploads, mounted, city, authNotify,
                 user, subs, dirty, messages, isLoading, gate, lastMarked>>
  /\ UNCHANGED offChat

\* ------------------------------------------------------ messages effect
\* The onSnapshot callback of listener k: the list is replaced by the mapped
\* snapshot and markMessagesAsRead patches what the viewer has not read.
Snapshot(d, k) ==
  /\ mounted[d] /\ dirty[d] /\ k \in 1..Len(subs[d])
  /\ LET data == SnapshotData(subs[d][k].city)
         marked == MarkMessagesAsRead(data, subs[d][k].uid)
         issued == {[id |-> w.id, readBy |-> w.readBy, by |-> d] : w \in marked}
     IN /\ Cardinality(upds \cup issued) <= MaxPending
        /\ messages' = [messages EXCEPT ![d] = data]
        /\ isLoading' = [isLoading EXCEPT ![d] = FALSE]
        /\ lastMarked' = [lastMarked EXCEPT ![d] = marked]
        /\ upds' = upds \cup issued
  /\ dirty' = [dirty EXCEPT ![d] = FALSE]
  /\ UNCHANGED <<authUser, msgs, adds, uploads, mounted, city, authNotify, gets,
                 user, subs, gate, lastFail>>
  /\ UNCHANGED offChat

\* updateDoc(messageRef, { readBy }) commits: the field is overwritten.
UpdateSucceed(w) ==
  /\ w \in upds
  /\ upds' = upds \ {w}
  /\ msgs' = [msgs EXCEPT ![w.id].readBy = w.readBy]
  /\ dirty' = Touched(msgs[w.id].city)
  /\ UNCHANGED <<authUser, adds, uploads, mounted, city, authNotify, gets, user,
                 subs, messages, isLoading, gate, lastMarked, lastFail>>
  /\ UNCHANGED offChat

\* Promise.all(batch).catch(console.error)
UpdateFail(w) ==
  /\ w \in upds
  /\ upds' = upds \ {w}
  /\ lastFail' = [op |-> "markRead", alert |-> AlertOnFail("markRead")]
  /\ UNCHANGED <<authUser, msgs, adds, uploads, mounted, city, authNotify, gets,
                 user, subs, dirty, messages, isLoading, gate, lastMarked>>
  /\ UNCHANGED offChat

\* ------------------------------------------------------ send handlers
HandleSend(d, text) ==
  /\ mounted[d] /\ Len(msgs) + InFlight < MaxMsgs
  /\ IF SendGuard(d, text)
     THEN adds' = adds \cup {[by |-> d, op |-> "send", live |-> TRUE,
                              doc |-> NewDoc(user[d], city[d], "text", text)]}
     ELSE UNCHANGED adds
  /\ UNCHANGED <<authUser, msgs, upds, uploads, mounted, city, authNotify, gets,
                 user, subs, dirty, messages, isLoading, gate, lastMarked, lastFail>>
  /\ UNCHANGED offChat

\* handleSendMedia up to the upload: setIsLoading(true), fetch, uploadBytes,
\* getDownloadURL.
HandleSendMedia(d, kind) ==
  /\ mounted[d] /\ Len(msgs) + InFlight < MaxMsgs
  /\ IF MediaGuard(d)
     THEN /\ isLoading' = [isLoading EXCEPT ![d] = TRUE]
          /\ uploads' = uploads \cup
               {[by |-> d, op |-> "media", live |-> TRUE,
                 doc |-> NewDoc(user[d], city[d], MediaType(kind), <<kind, "shared">>)]}
     ELSE UNCHANGED <<isLoading, uploads>>
  /\ UNCHANGED <<authUser, msgs, adds, upds, mounted, city, authNotify, gets,
                 user, subs, dirty, messages, gate, lastMarked, lastFail>>
  /\ UNCHANGED offChat

\* handleSendAudio up to the upload and the duration probe.
HandleSendAudio(d) ==
  /\ mounted[d] /\ Len(msgs) + InFlight < MaxMsgs
  /\ IF MediaGuard(d)
     THEN /\ isLoading' = [isLoading EXCEPT ![d] = TRUE]
          /\ uploads' = uploads \cup
               {[by |-> d, op |-> "audio", live |-> TRUE,
                 doc |-> NewDoc(user[d], city[d], "audio", <<"audio", "shared">>)]}
     ELSE UNCHANGED <<isLoading, uploads>>
  /\ UNCHANGED <<authUser, msgs, adds, upds, mounted, city, authNotify, gets,
                 user, subs, dirty, messages, gate, lastMarked, lastFail>>
  /\ UNCHANGED offChat

\* The upload and getDownloadURL succeeded: addDoc is called.
UploadSucceed(u) ==
  /\ u \in uploads
  /\ uploads' = uploads \ {u}
  /\ adds' = adds \cup {u}
  /\ UNCHANGED <<authUser, msgs, upds, mounted, city, authNotify, gets, user,
                 subs, dirty, messages, isLoading, gate, lastMarked, lastFail>>
  /\ UNCHANGED offChat

\* setIsLoading(false) of the finally block reaches the instance that started
\* the request only.
Finally(a) ==
  IF a.op \in {"media", "audio"} /\ a.live
  THEN isLoading' = [isLoading EXCEPT ![a.by] = FALSE]
  ELSE UNCHANGED isLoading

\* The upload failed: catch shows the alert, finally clears isLoading.
UploadFail(u) ==
  /\ u \in uploads
  /\ uploads' = uploads \ {u}
  /\ lastFail' = [op |-> u.op, alert |-> AlertOnFail(u.op)]
  /\ Finally(u)
  /\ UNCHANGED <<authUser, msgs, adds, upds, mounted, city, authNotify, gets,
                 user, subs, dirty, messages, gate, lastMarked>>
  /\ UNCHANGED offChat

\* handleSendLocation: permission, position, then addDoc if (user && city).
HandleSendLocation(d, perm) ==
  /\ mounted[d] /\ Len(msgs) + InFlight < MaxMsgs
  /\ IF perm = "granted" /\ MediaGuard(d)
     THEN adds' = adds \cup
            {[by |-> d, op |-> "location", live |-> TRUE,
              doc |-> NewDoc(user[d], city[d], "location",
                             <<"Location", "shared">>)]}
     ELSE UNCHANGED adds
  /\ UNCHANGED <<authUser, msgs, upds, uploads, mounted, city, authNotify, gets,
                 user, subs, dirty, messages, isLoading, gate, lastMarked,
                 lastFail>>
  /\ UNCHANGED offChat

\* addDoc commits: the backend assigns the document id and the timestamp.
AddSucceed(a) ==
  /\ a \in adds
  /\ adds' = adds \ {a}
  /\ msgs' = Append(msgs, [a.doc EXCEPT !.timestamp = Len(msgs) + 1])
  /\ dirty' = Touched(a.doc.city)
  /\ Finally(a)
  /\ UNCHANGED <<authUser, upds, uploads, mounted, city, authNotify, gets, user,
                 subs, messages, gate, lastMarked, lastFail>>
  /\ UNCHANGED offChat

\* addDoc rejects.
AddFail(a) ==
  /\ a \in adds
  /\ adds' = adds \ {a}
  /\ lastFail' = [op |-> a.op, alert |-> AlertOnFail(a.op)]
  /\ Finally(a)
  /\ UNCHANGED <<authUser, msgs, upds, uploads, mounted, city, authNotify, gets,
                 user, subs, dirty, messages, gate, lastMarked>>
  /\ UNCHANGED offChat

\* ==================================================================
\* ProfileScreen and AdminProfileScreen
\* ==================================================================
PUid == "p1"
Names == {"", "ann"}

\* The stored notifications field and the boolean state.
ToStored(b) == IF b THEN "on" ELSE "off"

\* data.notifications ?? true
FromStored(v) == IF v = "absent" THEN TRUE ELSE v = "on"

\* if (!user || loading) return <loading view>
View == IF pUser = None \/ pLoading THEN "loading" ELSE "main"

\* saveProfile without its guard.
SaveGuard_None == TRUE

\* if (!user) return
SaveGuard == pUser # None

\* The fields saveProfile passes to updateDoc.
SaveFields ==
  IF pKind = "user"
  THEN [fullName |-> pName, notifications |-> ToStored(notifications)]
  ELSE [fullName |-> pName, notifications |-> "keep"]

\* setNotifications(!value) of the catch block.
Revert(value) == ~value

\* The profile effect, run when [user] changed: fetchProfile starts.
ProfileEffect(u) == u # None

\* onAuthStateChanged callback: setUser(firebaseUser) and, signed out,
\* router.replace("/(auth)/login").
PAuthReport ==
  /\ pRoute = "profile" /\ pNotify
  /\ pNotify' = FALSE
  /\ pReport' = IF pAuth = None THEN "signedOut" ELSE pAuth
  /\ pUser' = pAuth
  /\ IF pAuth = None
     THEN /\ pRoute' = "login"
          /\ pWrites' = [k \in 1..Len(pWrites) |-> [pWrites[k] EXCEPT !.live = FALSE]]
          /\ UNCHANGED <<pLoading, pFetch>>
     ELSE /\ IF pUser # pAuth /\ ProfileEffect(pAuth)
             THEN pLoading' = TRUE /\ pFetch' = TRUE
             ELSE UNCHANGED <<pLoading, pFetch>>
          /\ UNCHANGED <<pRoute, pWrites>>
  /\ UNCHANGED <<pKind, pAuth, pSaving, pName, notifications, sDoc, pAlert, pOutcome>>
  /\ UNCHANGED offProf

\* The session ends (signOut, or the backend revokes it).
PSignOut ==
  /\ pAuth # None
  /\ pAuth' = None
  /\ pNotify' = (pRoute = "profile")
  /\ UNCHANGED <<pKind, pRoute, pUser, pLoading, pFetch, pSaving, pName,
                 notifications, sDoc, pWrites, pReport, pAlert, pOutcome>>
  /\ UNCHANGED offProf

\* The user signs in on the login route and opens the profile tab: a new
\* instance, whose user state starts as auth.currentUser.
PLogin ==
  /\ pRoute = "login" /\ pAuth = None
  /\ pAuth' = PUid /\ pRoute' = "profile"
  /\ pUser' = PUid /\ pNotify' = TRUE /\ pReport' = None
  /\ pLoading' = TRUE /\ pFetch' = TRUE /\ pSaving' = FALSE
  /\ pName' = "" /\ notifications' = TRUE
  /\ UNCHANGED <<pKind, sDoc, pWrites, pAlert, pOutcome>>
  /\ UNCHANGED offProf

\* fetchProfile: the document's fields replace the state, loading ends.
PFetchDone(ok) ==
  /\ pRoute = "profile" /\ pFetch
  /\ pFetch' = FALSE /\ pLoading' = FALSE
  /\ IF ok
     THEN /\ IF sDoc.exists
             THEN /\ pName' = sDoc.fullName
                  /\ notifications' =
                       IF pKind = "user" THEN FromStored(sDoc.notifications)
                       ELSE notifications
             ELSE UNCHANGED <<pName, notifications>>
          /\ UNCHANGED pAlert
     ELSE /\ pAlert' = "Failed to fetch profile"
          /\ UNCHANGED <<pName, notifications>>
  /\ UNCHANGED <<pKind, pAuth, pNotify, pRoute, pUser, pSaving, sDoc, pWrites,
                 pReport, pOutcome>>
  /\ UNCHANGED offProf

\* The name field is edited.
EditName(n) ==
  /\ pRoute = "profile" /\ View = "main" /\ pName # n
  /\ pName' = n
  /\ UNCHANGED <<pKind, pAuth, pNotify, pRoute, pUser, pLoading, pFetch, pSaving,
                 notifications, sDoc, pWrites, pReport, pAlert, pOutcome>>
  /\ UNCHANGED offProf

\* The fields beside fullName and notifications that saveProfile passes to
\* updateDoc: contact, medical, photoUrl: photo, blockedUsers in
\* ProfileScreen; contact, photoUrl: photo in AdminProfileScreen.
SaveMore ==
  [set |-> IF pKind = "user"
           THEN {"contact", "medical", "photoUrl", "blockedUsers"}
           ELSE {"contact", "photoUrl"},
   contact |-> contact, medical |-> medical, photoUrl |-> photo,
   blockedUsers |-> blockedUsers]

\* handleToggleNotifications passes none of them.
NoMore ==
  [set |-> {}, contact |-> "", medical |-> "", photoUrl |-> <<>>,
   blockedUsers |-> <<>>]

\* A Save button that is never disabled.
SaveDisabled_Never == FALSE

\* disabled={saving}
SaveDisabled == pSaving

\* saveProfile up to the updateDoc call. The Save button is disabled while
\* saving; without a user the handler's own guard decides.
SaveProfile ==
  /\ pRoute = "profile" /\ ~SaveDisabled /\ (View = "main" \/ pUser = None)
  /\ Len(pWrites) < MaxWrites
  /\ IF SaveGuard
     THEN /\ pSaving' = TRUE
          /\ pWrites' = Append(pWrites,
               [op |-> "save", uid |-> pUser, fields |-> SaveFields,
                more |-> SaveMore,
                value |-> notifications, prev |-> notifications, live |-> TRUE])
     ELSE UNCHANGED <<pSaving, pWrites>>
  /\ UNCHANGED <<pKind, pAuth, pNotify, pRoute, pUser, pLoading, pFetch, pName,
                 notifications, sDoc, pReport, pAlert, pOutcome>>
  /\ UNCHANGED offProf

\* handleToggleNotifications(value): the Switch shows the notifications state
\* and reports its negation.
ToggleNotifications(value) ==
  /\ pKind = "user" /\ pRoute = "profile" /\ View = "main"
  /\ value = ~notifications
  /\ Len(pWrites) < MaxWrites
  /\ notifications' = value
  /\ pWrites' = Append(pWrites,
       [op |-> "toggle", uid |-> pUser,
        fields |-> [fullName |-> "keep", notifications |-> ToStored(value)],
        more |-> NoMore,
        value |-> value, prev |-> notifications, live |-> TRUE])
  /\ UNCHANGED <<pKind, pAuth, pNotify, pRoute, pUser, pLoading, pFetch, pSaving,
                 pName, sDoc, pReport, pAlert, pOutcome>>
  /\ UNCHANGED offProf

\* updateDoc merges the given fields into the stored document.
Merge(doc, fields) ==
  [doc EXCEPT
     !.fullName = IF fields.fullName = "keep" THEN @ ELSE fields.fullName,
     !.notifications = IF fields.notifications = "keep" THEN @
                       ELSE fields.notifications]

\* A field beside fullName and notifications after updateDoc.
Merged(more, field, stored) ==
  IF field \in more.set THEN more[field] ELSE stored

\* The oldest write in flight commits.
WriteSucceed ==
  /\ pWrites # <<>>
  /\ LET w == Head(pWrites) IN
     /\ sDoc' = Merge(sDoc, w.fields)
     /\ sContact' = Merged(w.more, "contact", sContact)
     /\ sMedical' = Merged(w.more, "medical", sMedical)
     /\ sPhotoUrl' = Merged(w.more, "photoUrl", sPhotoUrl)
     /\ sBlocked' = Merged(w.more, "blockedUsers", sBlocked)
     /\ pOutcome' = "ok"
     /\ IF w.op = "save" /\ w.live
        THEN pSaving' = FALSE /\ pAlert' = "Profile Updated"
        ELSE UNCHANGED <<pSaving, pAlert>>
  /\ pWrites' = Tail(pWrites)
  /\ UNCHANGED <<pKind, pAuth, pNotify, pRoute, pUser, pLoading, pFetch, pName,
                 notifications, pReport>>
  /\ UNCHANGED <<contact, medical>>
  /\ UNCHANGED <<photo, photoUploading, pick, picks, objects, phAlert>>
  /\ UNCHANGED <<modal, modalCallback, dAlert, blockedUsers, bMenu, bWrites,
                 bOutcome, pwTimers, authOps, sPassword, logoutAlert, signOuts>>
  /\ UNCHANGED <<chatVars, fmtVars, mapVars, dashVars, homeVars, repVars>>

\* The oldest write in flight is rejected: the catch block runs.
WriteFail ==
  /\ pWrites # <<>>
  /\ LET w == Head(pWrites) IN
     /\ pOutcome' = "failed"
     /\ IF ~w.live
        THEN UNCHANGED <<pSaving, pAlert, notifications>>
        ELSE IF w.op = "save"
             THEN /\ pSaving' = FALSE /\ pAlert' = "Failed to update profile"
                  /\ UNCHANGED notifications
             ELSE /\ notifications' = Revert(w.value)
                  /\ pAlert' = "Failed to update notification settings"
                  /\ UNCHANGED pSaving
  /\ pWrites' = Tail(pWrites)
  /\ UNCHANGED <<pKind, pAuth, pNotify, pRoute, pUser, pLoading, pFetch, pName,
                 sDoc, pReport>>
  /\ UNCHANGED offProf

InitProfileState ==
  /\ pKind \in {"user", "admin"}
  /\ pAuth \in {PUid, None}
  /\ pUser \in {pAuth, None}
  /\ pNotify = TRUE /\ pRoute = "profile" /\ pReport = None
  /\ pLoading = TRUE /\ pFetch = (pUser # None) /\ pSaving = FALSE
  /\ pName = "" /\ notifications = TRUE
  /\ sDoc \in [exists : {TRUE}, fullName : {""}, notifications : {"absent", "off"}]
  /\ pWrites = <<>>
  /\ pAlert = None
  /\ pOutcome = None

\* ------------------------------------------------ metadata formatting
\* Texts are sequences of characters; a fixed literal is one element.
Span == 60

KB == 1024
MB == 1048576
Milli == 1000

DigitChar(n) == <<"0", "1", "2", "3", "4", "5", "6", "7", "8", "9">>[n + 1]

\* Number to string, for a non-negative integer.
RECURSIVE Digits(_)
Digits(n) ==
  IF n < 10 THEN <<DigitChar(n)>>
  ELSE Digits(n \div 10) \o <<DigitChar(n % 10)>>

\* (num / den).toFixed(1): the tenths n with n/10 nearest to num/den, the
\* larger n on a tie; num / den is exact for den a power of two.
ToFixed1(num, den) ==
  LET n == (20 * num + den) \div (2 * den)
  IN Digits(n \div 10) \o <<".">> \o Digits(n % 10)

\* A metadata value: absent (undefined), or a number. A size is a number of
\* bytes; a duration is kept in milliseconds, seconds = val / Milli, as
\* handleSendAudio stores durationMillis / 1000.
Absent == [def |-> FALSE, val |-> 0]
Num(v) == [def |-> TRUE, val |-> v]

\* !x for x undefined or 0
Falsy(x) == ~x.def \/ x.val = 0

formatFileSize(bytes) ==
  IF Falsy(bytes) THEN <<"Unknown size">>
  ELSE IF bytes.val < KB THEN Digits(bytes.val) \o <<" B">>
  ELSE IF bytes.val < MB THEN ToFixed1(bytes.val, KB) \o <<" KB">>
  ELSE ToFixed1(bytes.val, MB) \o <<" MB">>

Pad_Never(secs) == <<>>

Pad(secs) == IF secs < 10 THEN <<"0">> ELSE <<>>

formatDuration(seconds) ==
  IF Falsy(seconds) THEN <<"0", ":", "0", "0">>
  ELSE LET mins == seconds.val \div (60 * Milli)
           secs == (seconds.val % (60 * Milli)) \div Milli
       IN Digits(mins) \o <<":">> \o Pad(secs) \o Digits(secs)

Near(n) == {v \in (n - Span)..(n + Span) : v >= 0}

\* Sizes at zero and around each unit threshold.
Sizes == Near(0) \cup Near(KB) \cup Near(MB)

\* Durations up to two minutes and around ten minutes and an hour, whole or
\* with a fraction of a second.
Durations ==
  {sec * Milli + ms :
     sec \in Near(60) \cup Near(600) \cup Near(3600),
     ms \in {0, 1, 500, 999}}

InitFmt ==
  /\ meta \in [field : {"fileSize"}, v : {Absent} \cup {Num(b) : b \in Sizes}]
            \cup [field : {"duration"},
                  v : {Absent} \cup {Num(t) : t \in Durations}]
  /\ shown = <<>>

\* {formatFileSize(message.metadata?.fileSize)}
RenderFileSize ==
  /\ meta.field = "fileSize" /\ shown = <<>>
  /\ shown' = formatFileSize(meta.v)
  /\ UNCHANGED <<meta, offFmt>>

\* {formatDuration(message.metadata?.duration)}
RenderDuration ==
  /\ meta.field = "duration" /\ shown = <<>>
  /\ shown' = formatDuration(meta.v)
  /\ UNCHANGED <<meta, offFmt>>

\* No metadata line is being rendered.
IdleFmt == meta = [field |-> "fileSize", v |-> Absent] /\ shown = <<>>

\* ------------------------------------------- read-time document mapping
\* A JavaScript value: its type and a tag that tells values of a type apart.
\* "timestamp" is an object whose toDate is a function.
MaxOdd == 2

Js(t, tag) == [t |-> t, tag |-> tag]
JsUndefined == Js("undefined", "")
JsNull == Js("null", "")
Str(x) == Js("string", x)
EmptyArray == Js("array", "[]")
EmptyObject == Js("object", "{}")

JsValues ==
  {JsUndefined, JsNull, Str(""), Str("x"), Js("number", "0"), Js("number", "7"),
   EmptyArray, Js("array", "[e1]"), EmptyObject, Js("object", "{uri}"),
   Js("timestamp", "t1")}

\* !x
JsFalsy(x) ==
  \/ x.t \in {"undefined", "null"}
  \/ x.t = "string" /\ x.tag = ""
  \/ x.t = "number" /\ x.tag = "0"

\* x || dflt
Or(x, dflt) == IF JsFalsy(x) THEN dflt ELSE x

\* data.timestamp && typeof data.timestamp.toDate === 'function'
HasToDate(x) == ~JsFalsy(x) /\ x.t = "timestamp"

\* Array.isArray(data.readBy) ? data.readBy : [], without the test.
ReadByOrEmpty_Unchecked(x) == x

ReadByOrEmpty(x) == IF x.t = "array" THEN x ELSE EmptyArray

DataFields ==
  {"senderId", "senderName", "senderEmail", "senderCity", "city", "content",
   "type", "timestamp", "readBy", "metadata"}

\* The entry pushed for document id with content data.
MapData(id, data) ==
  [id |-> Str(id),
   senderId |-> Or(data.senderId, Str("")),
   senderName |-> Or(data.senderName, Str("")),
   senderEmail |-> Or(data.senderEmail, Str("")),
   senderCity |-> Or(data.senderCity, Str("")),
   city |-> Or(data.city, Str("")),
   content |-> Or(data.content, Str("")),
   type |-> Or(data.type, Str("text")),
   timestamp |-> IF HasToDate(data.timestamp)
                 THEN Js("date", data.timestamp.tag) ELSE JsNull,
   readBy |-> ReadByOrEmpty(data.readBy),
   metadata |-> Or(data.metadata, EmptyObject)]

\* A document as handleSend writes it.
WellFormed ==
  [f \in DataFields |->
     CASE f = "timestamp" -> Js("timestamp", "t1")
       [] f = "readBy" -> Js("array", "[e1]")
       [] f = "metadata" -> JsUndefined
       [] f = "type" -> Str("text")
       [] OTHER -> Str("x")]

\* Documents that differ from it in at most MaxOdd fields, by any value.
Documents ==
  UNION {{[f \in DataFields |-> IF f \in S THEN g[f] ELSE WellFormed[f]] :
            g \in [S -> JsValues]} :
         S \in {T \in SUBSET DataFields : Cardinality(T) <= MaxOdd}}

InitMap == docData \in Documents /\ messagesData = <<>>

\* snapshot.forEach((docSnap) => { ... messagesData.push({...}) })
PushMapped ==
  /\ messagesData = <<>>
  /\ messagesData' = <<MapData("m1", docData)>>
  /\ UNCHANGED <<docData, offMap>>

\* ------------------------------------------------- EmployeeDashboard
MaxAlerts == 4
MaxSos == 6
MaxTime == 10
DayLen == 2
DaysPerMonth == 2
MonthsPerYear == 2

EmpUid == "e1"

\* The local calendar date of an instant: getFullYear, getMonth, getDate.
Calendar(t) ==
  LET day == t \div DayLen
  IN [year |-> day \div (DaysPerMonth * MonthsPerYear),
      month |-> (day \div DaysPerMonth) % MonthsPerYear,
      date |-> day % DaysPerMonth]

\* isToday without the getMonth comparison.
isToday_NoMonth(date, clock) ==
  /\ Calendar(date).year = Calendar(clock).year
  /\ Calendar(date).date = Calendar(clock).date

\* isToday(date), new Date() being the instant clock.
isToday(date, clock) ==
  /\ Calendar(date).year = Calendar(clock).year
  /\ Calendar(date).month = Calendar(clock).month
  /\ Calendar(date).date = Calendar(clock).date

SosIds == 1..Len(sos)

\* { id: d.id, ...d.data() }
SosEntry(i) == [id |-> i, createdAt |-> sos[i].createdAt]

\* orderBy("createdAt", "desc"): null sorts below every timestamp, equal
\* values are ordered by document id, descending as well.
DescCreated(i, j) ==
  \/ sos[i].createdAt > sos[j].createdAt
  \/ sos[i].createdAt = sos[j].createdAt /\ i >= j

\* query(collection(db, "sos_requests"), orderBy("createdAt", "desc")):
\* documents without the ordered field are not part of the result.
QueryAll ==
  LET S == {i \in SosIds : sos[i].createdAt # -1}
  IN [k \in 1..Cardinality(S) |->
        SosEntry(CHOOSE i \in S :
                   Cardinality({j \in S : DescCreated(j, i)}) = k)]

\* b.createdAt?.toMillis?.() ?? 0
Millis(createdAt) == IF createdAt <= 0 THEN 0 ELSE createdAt

\* where("responderId", "==", uid), where("status", "==", "responded")
Handled(uid) ==
  {i \in SosIds : sos[i].responderId = uid /\ sos[i].status = "responded"}

\* snap.docs left in document id order.
DescMillis_Unsorted(i, j) == i <= j

\* .sort((a, b) => millis(b) - millis(a)) of snap.docs, which come in
\* document id order; the sort is stable.
DescMillis(i, j) ==
  \/ Millis(sos[i].createdAt) > Millis(sos[j].createdAt)
  \/ Millis(sos[i].createdAt) = Millis(sos[j].createdAt) /\ i <= j

SortedHandled(uid) ==
  LET S == Handled(uid)
  IN [k \in 1..Cardinality(S) |->
        SosEntry(CHOOSE i \in S :
                   Cardinality({j \in S : DescMillis(j, i)}) = k)]

\* array.slice(0, n)
Slice(list, n) == SubSeq(list, 1, IF Len(list) < n THEN Len(list) ELSE n)

\* alert.createdAt && isToday(createdAt as a Date)
KeepAlert(alert, clock) == alert.createdAt > 0 /\ isToday(alert.createdAt, clock)

\* sosRequests.filter(...)
RECURSIVE TodaysAlerts(_, _)
TodaysAlerts(requests, clock) ==
  IF requests = <<>> THEN <<>>
  ELSE (IF KeepAlert(Head(requests), clock) THEN <<Head(requests)>> ELSE <<>>)
       \o TodaysAlerts(Tail(requests), clock)

\* {loading ? '...' : todaysAlerts.length}
Badge(isLoading_, alerts) == IF isLoading_ THEN <<"...">> ELSE Digits(Len(alerts))

\* The cards of the section: none while loading, else slice(0, 3).
Cards(isLoading_, alerts) ==
  IF isLoading_ THEN <<>>
  ELSE LET c == Slice(alerts, 3) IN [k \in 1..Len(c) |-> c[k].id]

\* The render that follows a state update, at the clock's instant.
Render(requests, isLoading_) ==
  /\ todaysAlerts' = TodaysAlerts(requests, now)
  /\ badge' = Badge(isLoading_, TodaysAlerts(requests, now))
  /\ cards' = Cards(isLoading_, TodaysAlerts(requests, now))

\* Someone raises an SOS request; createdAt is the server's time, null, or
\* not written.
NewRequest(c) ==
  /\ Len(sos) < MaxAlerts
  /\ sos' = Append(sos, [createdAt |-> c, responderId |-> None,
                         status |-> "pending"])
  /\ dirtyAll' = TRUE
  /\ UNCHANGED <<now, employee, dirtyMine, sosRequests, loading, handledCount,
                 recentActivity, myResponded, todaysAlerts, badge, cards>>
  /\ UNCHANGED offDash

\* A responder takes a request.
Respond(i, u) ==
  /\ i \in SosIds /\ sos[i].status = "pending"
  /\ sos' = [sos EXCEPT ![i].responderId = u, ![i].status = "responded"]
  /\ dirtyAll' = TRUE
  /\ dirtyMine' = (dirtyMine \/ (employee # None /\ u = employee))
  /\ UNCHANGED <<now, employee, sosRequests, loading, handledCount,
                 recentActivity, myResponded, todaysAlerts, badge, cards>>
  /\ UNCHANGED offDash

\* Time passes.
Tick ==
  /\ now < MaxTime
  /\ now' = now + 1
  /\ UNCHANGED <<sos, employee, dirtyAll, dirtyMine, sosRequests, loading,
                 handledCount, recentActivity, myResponded, todaysAlerts,
                 badge, cards>>
  /\ UNCHANGED offDash

\* onSnapshot(doc(db, "users", user.uid)): setEmployee; the handled-SOS
\* effect then registers its listener.
EmployeeSnapshot ==
  /\ employee = None
  /\ employee' = EmpUid
  /\ dirtyMine' = TRUE
  /\ Render(sosRequests, loading)
  /\ UNCHANGED <<sos, now, dirtyAll, sosRequests, loading, handledCount,
                 recentActivity, myResponded>>
  /\ UNCHANGED offDash

\* The all-requests listener: setSosRequests, setLoading(false).
AllSnapshot ==
  /\ dirtyAll
  /\ dirtyAll' = FALSE
  /\ sosRequests' = QueryAll
  /\ loading' = FALSE
  /\ Render(QueryAll, FALSE)
  /\ UNCHANGED <<sos, now, employee, dirtyMine, handledCount, recentActivity,
                 myResponded>>
  /\ UNCHANGED offDash

\* The handled-SOS listener: setHandledCount(snap.size),
\* setRecentActivity(data.slice(0, 5)), setMyResponded(data).
HandledSnapshot ==
  /\ employee # None /\ dirtyMine
  /\ dirtyMine' = FALSE
  /\ handledCount' = Cardinality(Handled(employee))
  /\ recentActivity' = Slice(SortedHandled(employee), 5)
  /\ myResponded' = SortedHandled(employee)
  /\ Render(sosRequests, loading)
  /\ UNCHANGED <<sos, now, employee, dirtyAll, sosRequests, loading>>
  /\ UNCHANGED offDash

\* The dashboard just mounted: both effects have run, nothing has arrived.
InitDash ==
  /\ now = 1 /\ employee = None
  /\ dirtyAll = TRUE /\ dirtyMine = FALSE
  /\ sosRequests = <<>> /\ loading = TRUE /\ handledCount = 0
  /\ recentActivity = <<>> /\ myResponded = <<>>
  /\ todaysAlerts = <<>> /\ badge = <<"...">> /\ cards = <<>>

\* ------------------------------------------------ profile dialogs
\* Strings typed into a modal are sequences of characters.
MaxBlkWrites == 2

\* The profile screen of a signed-in user, loaded.
ProfileReady(kind) ==
  /\ pKind = kind /\ pAuth = PUid /\ pUser = PUid
  /\ pNotify = FALSE /\ pRoute = "profile" /\ pReport = PUid
  /\ pLoading = FALSE /\ pFetch = FALSE /\ pSaving = FALSE
  /\ pName = "" /\ notifications = TRUE
  /\ sDoc = [exists |-> TRUE, fullName |-> "", notifications |-> "absent"]
  /\ pWrites = <<>> /\ pAlert = None /\ pOutcome = None

\* The buttons of the main view can be pressed: no alert and no modal is up.
CanPress ==
  /\ pRoute = "profile" /\ View = "main"
  /\ modal = None /\ bMenu = <<>> /\ logoutAlert # "open"

NoCallback == [kind |-> None, list |-> <<>>, old |-> <<>>]

\* /^[^\s@]+@[^\s@]+\.[^\s@]+$/ : no whitespace, one '@' with something
\* before it, and after it a '.' with something on both sides.
EmailValid(email) ==
  /\ \A k \in 1..Len(email) : email[k] # " "
  /\ \E at \in 2..Len(email) :
       /\ email[at] = "@"
       /\ \A k \in 1..Len(email) : email[k] = "@" => k = at
       /\ \E dot \in (at + 2)..(Len(email) - 1) : email[dot] = "."

EmailA == <<"a", "@", "x", ".", "i", "o">>
EmailB == <<"b", "@", "x", ".", "i", "o">>

EmailInputs ==
  {<<>>, EmailA, EmailB, <<"a", "@", "x">>, <<"a", " ", "@", "x", ".", "i">>,
   <<"@", "x", ".", "i">>, <<"a", "@", ".", "i">>}

\* blockedUsers.filter((u) => u !== email)
Without(list, email) == LET Other(u) == u # email IN SelectSeq(list, Other)

\* handleManageBlocked: the alert's handlers close over this render's list.
HandleManageBlocked ==
  /\ CanPress /\ pKind = "user"
  /\ bMenu' = <<blockedUsers>>
  /\ UNCHANGED <<modal, modalCallback, dAlert, blockedUsers, sBlocked, bWrites,
                 bOutcome, pwTimers, authOps, sPassword, logoutAlert, signOuts>>
  /\ UNCHANGED offDlg

\* The alert's Cancel, Block User or Unblock User button.
MenuChoose(choice) ==
  /\ bMenu # <<>>
  /\ bMenu' = <<>>
  /\ IF choice = "cancel"
     THEN UNCHANGED <<modal, modalCallback>>
     ELSE /\ modal' = (IF choice = "block" THEN "blockUser" ELSE "unblockUser")
          /\ modalCallback' = [kind |-> choice, list |-> bMenu[1], old |-> <<>>]
  /\ UNCHANGED <<dAlert, blockedUsers, sBlocked, bWrites, bOutcome, pwTimers,
                 authOps, sPassword, logoutAlert, signOuts>>
  /\ UNCHANGED offDlg

\* onCancel={() => setModal(null)}
ModalCancel ==
  /\ modal # None
  /\ modal' = None
  /\ UNCHANGED <<modalCallback, dAlert, blockedUsers, sBlocked, bMenu, bWrites,
                 bOutcome, pwTimers, authOps, sPassword, logoutAlert, signOuts>>
  /\ UNCHANGED offDlg

\* The callbacks below run from the Submit button of whichever ModalInput is
\* visible: every instance has onSubmit={modalCallback}.
\* The Block User callback, submitted with email.
SubmitBlock(email) ==
  /\ modal # None /\ modalCallback.kind = "block"
  /\ Len(bWrites) < MaxBlkWrites
  /\ modal' = None
  /\ LET list == modalCallback.list
         updated == Append(list, email)
     IN IF email = <<>>
        THEN UNCHANGED <<dAlert, blockedUsers, bWrites>>
        ELSE IF ~EmailValid(email)
        THEN dAlert' = "Invalid Email" /\ UNCHANGED <<blockedUsers, bWrites>>
        ELSE IF Includes(list, email)
        THEN dAlert' = "Already Blocked" /\ UNCHANGED <<blockedUsers, bWrites>>
        ELSE /\ blockedUsers' = updated
             /\ bWrites' = IF pUser # None
                           THEN Append(bWrites, [op |-> "block", updated |-> updated,
                                                 before |-> list])
                           ELSE bWrites
             /\ UNCHANGED dAlert
  /\ UNCHANGED <<modalCallback, sBlocked, bMenu, bOutcome, pwTimers, authOps,
                 sPassword, logoutAlert, signOuts>>
  /\ UNCHANGED offDlg

\* The Unblock User callback, submitted with email.
SubmitUnblock(email) ==
  /\ modal # None /\ modalCallback.kind = "unblock"
  /\ Len(bWrites) < MaxBlkWrites
  /\ modal' = None
  /\ LET list == modalCallback.list
         updated == Without(list, email)
     IN IF email = <<>>
        THEN UNCHANGED <<dAlert, blockedUsers, bWrites>>
        ELSE IF ~Includes(list, email)
        THEN dAlert' = "Not Blocked" /\ UNCHANGED <<blockedUsers, bWrites>>
        ELSE /\ blockedUsers' = updated
             /\ bWrites' = IF pUser # None
                           THEN Append(bWrites, [op |-> "unblock", updated |-> updated,
                                                 before |-> list])
                           ELSE bWrites
             /\ UNCHANGED dAlert
  /\ UNCHANGED <<modalCallback, sBlocked, bMenu, bOutcome, pwTimers, authOps,
                 sPassword, logoutAlert, signOuts>>
  /\ UNCHANGED offDlg

\* updateDoc({ blockedUsers: updated }) commits.
BlockedWriteSucceed ==
  /\ bWrites # <<>>
  /\ sBlocked' = Head(bWrites).updated
  /\ dAlert' = (IF Head(bWrites).op = "block" THEN "Blocked" ELSE "Unblocked")
  /\ bOutcome' = "ok"
  /\ bWrites' = Tail(bWrites)
  /\ UNCHANGED <<modal, modalCallback, blockedUsers, bMenu, pwTimers, authOps,
                 sPassword, logoutAlert, signOuts>>
  /\ UNCHANGED offDlg

\* updateDoc is rejected: setBlockedUsers(blockedUsers) of the closure.
BlockedWriteFail ==
  /\ bWrites # <<>>
  /\ blockedUsers' = Head(bWrites).before
  /\ dAlert' = "Error"
  /\ bOutcome' = "failed"
  /\ bWrites' = Tail(bWrites)
  /\ UNCHANGED <<modal, modalCallback, sBlocked, bMenu, pwTimers, authOps,
                 sPassword, logoutAlert, signOuts>>
  /\ UNCHANGED offDlg

\* ---- change password
MaxTimers == 2
MaxAuthOps == 2
MinPassword == 6

\* A string of n characters c.
Chars(n, c) == [k \in 1..n |-> c]

OldPassword == Chars(MinPassword, "o")
NewPassword == Chars(MinPassword, "n")

PasswordInputs ==
  {<<>>, OldPassword, NewPassword, Chars(MinPassword - 1, "s"), Chars(1, "w")}

\* The length check of ProfileScreen, left out.
TooShort_Never(kind, password) == FALSE

\* if (newPassword.length < 6), in ProfileScreen only.
TooShort(kind, password) == kind = "user" /\ Len(password) < MinPassword

\* handleChangePassword: the first modal and its callback.
HandleChangePassword ==
  /\ CanPress
  /\ modalCallback' = [kind |-> "old", list |-> <<>>, old |-> <<>>]
  /\ modal' = "changePasswordOld"
  /\ UNCHANGED <<dAlert, blockedUsers, sBlocked, bMenu, bWrites, bOutcome,
                 pwTimers, authOps, sPassword, logoutAlert, signOuts>>
  /\ UNCHANGED offDlg

\* The first callback: setModal(null); if (!oldPassword) return;
\* setTimeout(..., 300).
SubmitOld(oldPassword) ==
  /\ modal # None /\ modalCallback.kind = "old"
  /\ Len(pwTimers) < MaxTimers
  /\ modal' = None
  /\ pwTimers' = IF oldPassword = <<>> THEN pwTimers
                 ELSE Append(pwTimers, oldPassword)
  /\ UNCHANGED <<modalCallback, dAlert, blockedUsers, sBlocked, bMenu, bWrites,
                 bOutcome, authOps, sPassword, logoutAlert, signOuts>>
  /\ UNCHANGED offDlg

\* The timeout body without its setModalCallback: the callback stays.
NewPasswordCallback_Kept(oldPassword) == modalCallback

\* setModalCallback(() => async (newPassword) => ...) of the timeout body,
\* closed over oldPassword.
NewPasswordCallback(oldPassword) ==
  [kind |-> "new", list |-> <<>>, old |-> oldPassword]

\* The timeout runs: the second modal and its callback.
TimerFires ==
  /\ pwTimers # <<>>
  /\ modalCallback' = NewPasswordCallback(Head(pwTimers))
  /\ modal' = "changePasswordNew"
  /\ pwTimers' = Tail(pwTimers)
  /\ UNCHANGED <<dAlert, blockedUsers, sBlocked, bMenu, bWrites, bOutcome,
                 authOps, sPassword, logoutAlert, signOuts>>
  /\ UNCHANGED offDlg

\* The second callback, up to reauthenticateWithCredential(user, credential).
SubmitNew(newPassword) ==
  /\ modal # None /\ modalCallback.kind = "new"
  /\ Cardinality(authOps) < MaxAuthOps
  /\ modal' = None
  /\ IF newPassword = <<>>
     THEN UNCHANGED <<dAlert, authOps>>
     ELSE IF TooShort(pKind, newPassword)
     THEN /\ dAlert' = "Password must be at least 6 characters long."
          /\ UNCHANGED authOps
     ELSE /\ authOps' = authOps \cup
               {[step |-> "reauthenticate", old |-> modalCallback.old,
                 new |-> newPassword]}
          /\ UNCHANGED dAlert
  /\ UNCHANGED <<modalCallback, blockedUsers, sBlocked, bMenu, bWrites,
                 bOutcome, pwTimers, sPassword, logoutAlert, signOuts>>
  /\ UNCHANGED offDlg

\* reauthenticateWithCredential resolves, for the account's password only:
\* updatePassword(user, newPassword) is called.
ReauthSucceed(op) ==
  /\ op \in authOps /\ op.step = "reauthenticate" /\ op.old = sPassword
  /\ authOps' = (authOps \ {op}) \cup {[op EXCEPT !.step = "updatePassword"]}
  /\ UNCHANGED <<modal, modalCallback, dAlert, blockedUsers, sBlocked, bMenu,
                 bWrites, bOutcome, pwTimers, sPassword, logoutAlert, signOuts>>
  /\ UNCHANGED offDlg

\* Either call is rejected (wrong password, weak password, network, ...):
\* the catch block shows the error.
AuthFail(op) ==
  /\ op \in authOps
  /\ authOps' = authOps \ {op}
  /\ dAlert' = "Error"
  /\ UNCHANGED <<modal, modalCallback, blockedUsers, sBlocked, bMenu, bWrites,
                 bOutcome, pwTimers, sPassword, logoutAlert, signOuts>>
  /\ UNCHANGED offDlg

\* updatePassword resolves; the backend takes no password below its minimum.
UpdatePasswordSucceed(op) ==
  /\ op \in authOps /\ op.step = "updatePassword"
  /\ Len(op.new) >= MinPassword
  /\ authOps' = authOps \ {op}
  /\ sPassword' = op.new
  /\ dAlert' = "Success"
  /\ UNCHANGED <<modal, modalCallback, blockedUsers, sBlocked, bMenu, bWrites,
                 bOutcome, pwTimers, logoutAlert, signOuts>>
  /\ UNCHANGED offDlg

\* ---- logout
MaxSignOuts == 2

\* The button of the Confirm Logout alert that has no onPress, taken as
\* confirming too.
Confirms_Any(button) == TRUE

\* The button of the Confirm Logout alert whose onPress calls signOut.
Confirms(button) == button = "Log Out"

\* handleLogout: Alert.alert("Confirm Logout", ...).
HandleLogout ==
  /\ CanPress
  /\ logoutAlert' = "open"
  /\ UNCHANGED <<modal, modalCallback, dAlert, blockedUsers, sBlocked, bMenu,
                 bWrites, bOutcome, pwTimers, authOps, sPassword, signOuts>>
  /\ UNCHANGED offDlg

\* A button of the alert: "Log Out" runs onPress up to await signOut(auth).
LogoutChoose(button) ==
  /\ logoutAlert = "open"
  /\ signOuts < MaxSignOuts
  /\ logoutAlert' = button
  /\ signOuts' = IF Confirms(button) THEN signOuts + 1 ELSE signOuts
  /\ UNCHANGED <<modal, modalCallback, dAlert, blockedUsers, sBlocked, bMenu,
                 bWrites, bOutcome, pwTimers, authOps, sPassword>>
  /\ UNCHANGED offDlg

\* signOut resolves: nobody is signed in; the auth listener of a mounted
\* profile screen is notified of the change.
SignOutSucceed ==
  /\ signOuts > 0
  /\ signOuts' = signOuts - 1
  /\ pAuth' = None
  /\ pNotify' = IF pAuth # None THEN pRoute = "profile" ELSE pNotify
  /\ UNCHANGED <<pKind, pRoute, pUser, pLoading, pFetch, pSaving, pName,
                 notifications, sDoc, pWrites, pReport, pAlert, pOutcome>>
  /\ UNCHANGED <<modal, modalCallback, dAlert, blockedUsers, sBlocked, bMenu,
                 bWrites, bOutcome, pwTimers, authOps, sPassword, logoutAlert>>
  /\ UNCHANGED besideDlg

\* signOut rejects: catch shows the alert.
SignOutFail ==
  /\ signOuts > 0
  /\ signOuts' = signOuts - 1
  /\ dAlert' = "Logout Failed"
  /\ UNCHANGED <<modal, modalCallback, blockedUsers, sBlocked, bMenu, bWrites,
                 bOutcome, pwTimers, authOps, sPassword, logoutAlert>>
  /\ UNCHANGED offDlg

\* ---- report abuse
MaxReports == 1

Descriptions == {<<>>, <<"s", "p", "a", "m">>}

\* handleReportAbuse: the callback and the modal.
HandleReportAbuse ==
  /\ CanPress /\ pKind = "user"
  /\ modalCallback' = [kind |-> "report", list |-> <<>>, old |-> <<>>]
  /\ modal' = "reportAbuse"
  /\ UNCHANGED <<dAlert, blockedUsers, sBlocked, bMenu, bWrites, bOutcome,
                 pwTimers, authOps, sPassword, logoutAlert, signOuts>>
  /\ UNCHANGED offDlg

\* The Report Abuse callback, submitted with desc: setModal(null);
\* if (!desc) return; addDoc(abuse_reports, { description: desc, ... }).
SubmitReport(desc) ==
  /\ modal # None /\ modalCallback.kind = "report"
  /\ Len(reports) < MaxReports
  /\ modal' = None
  /\ reports' = IF desc = <<>> THEN reports ELSE Append(reports, desc)
  /\ UNCHANGED sReports
  /\ UNCHANGED <<modalCallback, dAlert, blockedUsers, sBlocked, bMenu, bWrites,
                 bOutcome, pwTimers, authOps, sPassword, logoutAlert, signOuts>>
  /\ UNCHANGED <<chatVars, profVars, fmtVars, mapVars, dashVars, phoVars,
                 homeVars, fldVars>>

\* addDoc settles: "Reported" or the error alert.
ReportSettles(ok) ==
  /\ reports # <<>>
  /\ reports' = Tail(reports)
  /\ sReports' = IF ok THEN sReports \cup {Head(reports)} ELSE sReports
  /\ dAlert' = IF ok THEN "Reported" ELSE "Error"
  /\ UNCHANGED <<modal, modalCallback, blockedUsers, sBlocked, bMenu, bWrites,
                 bOutcome, pwTimers, authOps, sPassword, logoutAlert, signOuts>>
  /\ UNCHANGED <<chatVars, profVars, fmtVars, mapVars, dashVars, phoVars,
                 homeVars, fldVars>>

\* The text typed into the visible ModalInput: a password in the two
\* password modals, an address or a description in the others.
Typed ==
  IF modal \in {"changePasswordOld", "changePasswordNew"}
  THEN {<<>>, OldPassword, NewPassword}
  ELSE {<<>>, EmailA} \cup Descriptions

\* The Submit button of the visible ModalInput: onSubmit(value), that is
\* modalCallback(value).
ModalSubmit(value) ==
  \/ SubmitOld(value)
  \/ SubmitNew(value)
  \/ SubmitBlock(value)
  \/ SubmitUnblock(value)
  \/ SubmitReport(value)

\* The dialogs of a profile screen just loaded.
InitDlg ==
  /\ modal = None /\ modalCallback = NoCallback /\ dAlert = None
  /\ blockedUsers = <<>> /\ sBlocked = <<>> /\ bMenu = <<>>
  /\ bWrites = <<>> /\ bOutcome = None
  /\ pwTimers = <<>> /\ authOps = {} /\ sPassword = <<>>
  /\ logoutAlert = None /\ signOuts = 0

\* --------------------------------------------------- profile photo upload
\* ProfileScreen.pickImage. Strings are sequences of tokens.
MaxPicks == 2

\* `profile_${user.uid}_${timestamp}.${fileExtension}` for the n-th pick.
FileName(n) == <<"profile_u1_0.jpg", "profile_u1_1.jpg", "profile_u1_2.jpg",
                 "profile_u1_3.jpg">>[n + 1]

\* The path of ref(storage, `profile_photos/${fileName}`).
Path(fileName) == <<"profile_photos", "/", fileName>>

\* getDownloadURL: the object's path is percent-encoded in the URL.
DownloadUrl(fileName) ==
  <<"https://firebasestorage.googleapis.com/v0/b/bucket/o/", "profile_photos",
    "%2F", fileName, "?alt=media">>

\* photo && photo.includes("profile_photos/")
HasOldObject(url) ==
  \E k \in 1..(Len(url) - 1) : url[k] = "profile_photos" /\ url[k + 1] = "/"

\* The object that ref(storage, photo) names, for a path or a download URL.
RefName(url) == IF url[1] = "profile_photos" THEN url[3] ELSE url[4]

NoPick == [pc |-> "idle", photo |-> <<>>, fileName |-> None, downloadUrl |-> <<>>]

\* deleteObject inside pickImage, were its rejection not caught.
AfterDelete_Throws(ok) == IF ok THEN "updateDoc" ELSE "catch"

\* try { await deleteObject(oldPhotoRef) } catch { log }: pickImage goes on
\* either way.
AfterDelete(ok) == "updateDoc"

\* The press on the photo: the user check, then the permission request.
PickImage ==
  /\ CanPress /\ pick.pc = "idle" /\ ~photoUploading
  /\ picks < MaxPicks
  /\ IF pUser = None
     THEN phAlert' = "User not authenticated" /\ UNCHANGED pick
     ELSE /\ pick' = [NoPick EXCEPT !.pc = "permission", !.photo = photo]
          /\ UNCHANGED phAlert
  /\ UNCHANGED <<photo, photoUploading, picks, sPhotoUrl, objects>>
  /\ UNCHANGED offPho

\* requestMediaLibraryPermissionsAsync resolves; denied: alert, return,
\* finally.
PermissionResult(status) ==
  /\ pick.pc = "permission"
  /\ IF status = "granted"
     THEN pick' = [pick EXCEPT !.pc = "picker"] /\ UNCHANGED <<phAlert, photoUploading>>
     ELSE /\ pick' = NoPick
          /\ phAlert' = "Permission Denied"
          /\ photoUploading' = FALSE
  /\ UNCHANGED <<photo, picks, sPhotoUrl, objects>>
  /\ UNCHANGED offPho

\* launchImageLibraryAsync resolves: cancelled, an asset without uri, or an
\* image, for which setPhotoUploading(true) and the blob conversion start.
PickerResult(result) ==
  /\ pick.pc = "picker"
  /\ IF result = "image"
     THEN /\ pick' = [pick EXCEPT !.pc = "blob", !.fileName = FileName(picks + 1)]
          /\ picks' = picks + 1
          /\ photoUploading' = TRUE
          /\ UNCHANGED phAlert
     ELSE /\ pick' = NoPick
          /\ phAlert' = IF result = "noUri" THEN "Failed to get image URI" ELSE phAlert
          /\ photoUploading' = FALSE
          /\ UNCHANGED picks
  /\ UNCHANGED <<photo, sPhotoUrl, objects>>
  /\ UNCHANGED offPho

\* The permission request or the picker rejects: the outer catch and finally.
PickerThrows ==
  /\ pick.pc \in {"permission", "picker"}
  /\ pick' = NoPick
  /\ phAlert' = "Failed to select image. Please try again."
  /\ photoUploading' = FALSE
  /\ UNCHANGED <<photo, picks, sPhotoUrl, objects>>
  /\ UNCHANGED offPho

\* uriToBlob, or its fetch fallback, resolves: uploadBytes starts.
BlobReady ==
  /\ pick.pc = "blob"
  /\ pick' = [pick EXCEPT !.pc = "uploadBytes"]
  /\ UNCHANGED <<photo, photoUploading, picks, sPhotoUrl, objects, phAlert>>
  /\ UNCHANGED offPho

\* uploadBytes resolves: the object exists, getDownloadURL starts.
UploadBytesDone ==
  /\ pick.pc = "uploadBytes"
  /\ objects' = objects \cup {pick.fileName}
  /\ pick' = [pick EXCEPT !.pc = "getDownloadURL"]
  /\ UNCHANGED <<photo, photoUploading, picks, sPhotoUrl, phAlert>>
  /\ UNCHANGED offPho

\* setPhoto(downloadUrl) and the start of updateDoc.
StartUpdateDoc(p) == [p EXCEPT !.pc = "updateDoc"]

\* getDownloadURL resolves: deleteObject on the old photo if its URL holds
\* "profile_photos/", otherwise setPhoto and updateDoc.
DownloadUrlDone ==
  /\ pick.pc = "getDownloadURL"
  /\ LET p == [pick EXCEPT !.downloadUrl = DownloadUrl(pick.fileName)]
     IN IF pick.photo # <<>> /\ HasOldObject(pick.photo)
        THEN pick' = [p EXCEPT !.pc = "deleteObject"] /\ UNCHANGED photo
        ELSE pick' = StartUpdateDoc(p) /\ photo' = p.downloadUrl
  /\ UNCHANGED <<photoUploading, picks, sPhotoUrl, objects, phAlert>>
  /\ UNCHANGED offPho

\* The blob conversion, uploadBytes, getDownloadURL or updateDoc rejects (and
\* deleteObject, were it not caught): "Upload Error", finally.
UploadCatch ==
  /\ pick' = NoPick
  /\ phAlert' = "Upload Error"
  /\ photoUploading' = FALSE

\* deleteObject settles.
DeleteDone(ok) ==
  /\ pick.pc = "deleteObject"
  /\ objects' = IF ok THEN objects \ {RefName(pick.photo)} ELSE objects
  /\ IF AfterDelete(ok) = "updateDoc"
     THEN /\ pick' = StartUpdateDoc(pick) /\ photo' = pick.downloadUrl
          /\ UNCHANGED <<photoUploading, phAlert>>
     ELSE UploadCatch /\ UNCHANGED photo
  /\ UNCHANGED <<picks, sPhotoUrl>>
  /\ UNCHANGED offPho

\* updateDoc resolves: photoUrl is stored, "Success", finally.
UpdateDocDone ==
  /\ pick.pc = "updateDoc"
  /\ sPhotoUrl' = pick.downloadUrl
  /\ pick' = NoPick
  /\ phAlert' = "Success"
  /\ photoUploading' = FALSE
  /\ UNCHANGED <<photo, picks, objects>>
  /\ UNCHANGED offPho

\* One of the awaited calls of the inner try rejects.
InnerTryFail ==
  /\ pick.pc \in {"blob", "uploadBytes", "getDownloadURL", "updateDoc"}
  /\ UploadCatch
  /\ UNCHANGED <<photo, picks, sPhotoUrl, objects>>
  /\ UNCHANGED offPho

\* The stored photo of a profile: none, a download URL, or a storage path.
StoredPhotos == {<<>>, DownloadUrl(FileName(0)), Path(FileName(0))}

\* The photo state after fetchProfile: setPhoto(data.photoUrl || null).
InitPho ==
  /\ sPhotoUrl \in StoredPhotos
  /\ photo = sPhotoUrl
  /\ objects = IF sPhotoUrl = <<>> THEN {} ELSE {FileName(0)}
  /\ photoUploading = FALSE /\ pick = NoPick /\ picks = 0 /\ phAlert = None

\* --------------------------------------------------------------- HomeScreen
MaxFetches == 2

Coord(lat, lon) == [latitude |-> lat, longitude |-> lon]

\* Positions the device reports, and positions another session of the same
\* account stores; latitude 0 is the equator.
DeviceCoords == {Coord(1, 1), Coord(0, 1)}
OtherCoords == {Coord(2, 2), Coord(0, 2)}

NoFetch == [pc |-> "idle", run |-> None, coords |-> <<>>, latest |-> <<>>]

\* A JavaScript number in a condition.
Truthy(n) == n # 0

\* if (docSnap.exists()) ... if (data.latitude && data.longitude)
Stored(snap) ==
  snap # <<>> /\ Truthy(snap[1].latitude) /\ Truthy(snap[1].longitude)

\* latestCoords: the document's coordinates under that condition, else coords.
StoredCoords(snap, coords) == IF Stored(snap) THEN snap[1] ELSE coords

\* email.split('@')[0]
LocalPart(email) == IF email[1] = "@" THEN "" ELSE email[1]

\* The name of the Home header:
\* profile?.name ? profile.name : user?.email ? user.email.split('@')[0] : "User"
HomeName ==
  IF profile # <<>> /\ profile[1].name # "" THEN profile[1].name
  ELSE IF hUser # None /\ hEmail # <<>> THEN LocalPart(hEmail)
  ELSE "User"

\* fetchAll is called, by the mount effect first and by onRefresh
\* (setRefreshing(true)) afterwards; the permission request starts.
FetchAll ==
  /\ fetch.pc = "idle" /\ fetches < MaxFetches
  /\ fetches' = fetches + 1
  /\ fetch' = [NoFetch EXCEPT !.pc = "permission",
                              !.run = IF fetches = 0 THEN "mount" ELSE "refresh"]
  /\ refreshing' = (fetches # 0)
  /\ UNCHANGED <<hUser, hEmail, sName, sWeather, profile, weather, location, hAlert>>
  /\ UNCHANGED offHome

\* fetchAll returns; onRefresh goes on with setRefreshing(false).
Return ==
  /\ fetch' = NoFetch
  /\ refreshing' = IF fetch.run = "refresh" THEN FALSE ELSE refreshing

\* The permission request resolves; not granted: alert and return.
HomePermission(status) ==
  /\ fetch.pc = "permission"
  /\ IF status = "granted"
     THEN fetch' = [fetch EXCEPT !.pc = "position"] /\ UNCHANGED <<refreshing, hAlert>>
     ELSE Return /\ hAlert' = "Permission required"
  /\ UNCHANGED <<hUser, hEmail, sName, sWeather, profile, weather, location, fetches>>
  /\ UNCHANGED offHome

\* The weather request for latestCoords.
RequestWeather(f, latest) == [f EXCEPT !.pc = "weather", !.latest = <<latest>>]

\* getCurrentPositionAsync resolves: setLocation(coords), then setDoc when
\* there is a user, the weather request otherwise.
Position(coords) ==
  /\ fetch.pc = "position"
  /\ location' = <<coords>>
  /\ fetch' = IF hUser # None
              THEN [fetch EXCEPT !.pc = "setDoc", !.coords = <<coords>>]
              ELSE RequestWeather([fetch EXCEPT !.coords = <<coords>>], coords)
  /\ UNCHANGED <<hUser, hEmail, sName, sWeather, profile, weather, refreshing,
                 fetches, hAlert>>
  /\ UNCHANGED offHome

\* setDoc(weatherRef, coords) resolves: getDoc starts.
SetDocDone ==
  /\ fetch.pc = "setDoc"
  /\ sWeather' = fetch.coords
  /\ fetch' = [fetch EXCEPT !.pc = "getDoc"]
  /\ UNCHANGED <<hUser, hEmail, sName, profile, weather, location, refreshing,
                 fetches, hAlert>>
  /\ UNCHANGED offHome

\* The same account on another device stores its position.
OtherDeviceWrites(coords) ==
  /\ hUser # None /\ sWeather # <<coords>>
  /\ sWeather' = <<coords>>
  /\ UNCHANGED <<hUser, hEmail, sName, profile, weather, location, refreshing,
                 fetch, fetches, hAlert>>
  /\ UNCHANGED offHome

\* getDoc(weatherRef) resolves: latestCoords, setLocation when taken from
\* the document, and the weather request.
GetDocDone ==
  /\ fetch.pc = "getDoc"
  /\ LET latest == StoredCoords(sWeather, fetch.coords[1]) IN
     /\ fetch' = RequestWeather(fetch, latest)
     /\ location' = IF Stored(sWeather) THEN <<latest>> ELSE location
  /\ UNCHANGED <<hUser, hEmail, sName, sWeather, profile, weather, refreshing,
                 fetches, hAlert>>
  /\ UNCHANGED offHome

\* The permission request, the position, setDoc or getDoc rejects: the outer
\* catch logs it and fetchAll returns.
FetchAllCatch ==
  /\ fetch.pc \in {"permission", "position", "setDoc", "getDoc"}
  /\ Return
  /\ UNCHANGED <<hUser, hEmail, sName, sWeather, profile, weather, location,
                 fetches, hAlert>>
  /\ UNCHANGED offHome

\* axios.get settles: setWeather(data) or, in its own catch, setWeather(null);
\* then fetchUserProfile when there is a user, else the end of fetchAll.
WeatherDone(ok) ==
  /\ fetch.pc = "weather"
  /\ weather' = IF ok THEN <<"data">> ELSE <<>>
  /\ IF hUser # None
     THEN fetch' = [fetch EXCEPT !.pc = "fetchUserProfile"] /\ UNCHANGED refreshing
     ELSE Return
  /\ UNCHANGED <<hUser, hEmail, sName, sWeather, profile, location, fetches, hAlert>>
  /\ UNCHANGED offHome

\* fetchUserProfile settles: setProfile(userSnap.data()) for a document that
\* exists, setProfile(null) otherwise and in its catch; fetchAll returns.
FetchUserProfileDone(ok) ==
  /\ fetch.pc = "fetchUserProfile"
  /\ profile' = IF ok /\ sDoc.exists
                THEN <<[name |-> sName, fullName |-> sDoc.fullName]>>
                ELSE <<>>
  /\ Return
  /\ UNCHANGED <<hUser, hEmail, sName, sWeather, weather, location, fetches, hAlert>>
  /\ UNCHANGED offHome

\* The Home screen of a signed-in account, just constructed.
InitHomeState ==
  /\ hUser \in {None, PUid}
  /\ hEmail \in IF hUser = None THEN {<<>>} ELSE {<<>>, <<"pat", "@", "x.io">>}
  /\ sName \in {"", "sam"}
  /\ sWeather = <<>>
  /\ profile = <<>> /\ weather = <<>> /\ location = <<>> /\ refreshing = FALSE
  /\ fetch = NoFetch /\ fetches = 0 /\ hAlert = None

\* ------------------------------------------------- profile text fields
Contacts == {"", "555"}
Medicals == {"", "asthma"}

\* onChangeText={setContact}
EditContact(t) ==
  /\ pRoute = "profile" /\ View = "main" /\ contact # t
  /\ contact' = t
  /\ UNCHANGED <<medical, sContact, sMedical>>
  /\ UNCHANGED offFld

\* onChangeText={setMedical}
EditMedical(t) ==
  /\ pKind = "user" /\ pRoute = "profile" /\ View = "main" /\ medical # t
  /\ medical' = t
  /\ UNCHANGED <<contact, sContact, sMedical>>
  /\ UNCHANGED offFld

\* The profile screens at rest, for the specifications of the chat.
IdleProfile ==
  /\ pKind = "user" /\ pAuth = None /\ pUser = None
  /\ pNotify = FALSE /\ pRoute = "login" /\ pReport = None
  /\ pLoading = TRUE /\ pFetch = FALSE /\ pSaving = FALSE
  /\ pName = "" /\ notifications = TRUE
  /\ sDoc = [exists |-> TRUE, fullName |-> "", notifications |-> "absent"]
  /\ pWrites = <<>>
  /\ pAlert = None
  /\ pOutcome = None

\* ------------------------------------------------------ specification
\* The actions, grouped; D is the set of devices that take part.
NavActs(D) ==
  \/ \E d \in D, c \in RouteCities : OpenChat(d, c)
  \/ \E d \in D : LeaveChat(d)

AuthActs(D) ==
  \/ \E d \in D : \E u \in Accounts(d) : SignIn(d, u)
  \/ \E d \in D : SignOut(d)

GateActs(D) ==
  \/ \E d \in D : AuthReport(d)
  \/ \E d \in D : \E g \in gets[d] : GetDocResolve(d, g)

FeedActs(D) ==
  \/ \E d \in D : \E k \in 1..Len(subs[d]) : Snapshot(d, k)
  \/ \E w \in upds : UpdateSucceed(w)

TextActs(D) ==
  \/ \E d \in D, t \in Texts : HandleSend(d, t)
  \/ \E a \in adds : AddSucceed(a)

MediaActs(D) ==
  \/ \E d \in D, kind \in MediaKinds : HandleSendMedia(d, kind)
  \/ \E d \in D : HandleSendAudio(d)
  \/ \E d \in D, perm \in {"granted", "denied"} : HandleSendLocation(d, perm)
  \/ \E u \in uploads : UploadSucceed(u)

FailActs(D) ==
  \/ \E d \in D : \E g \in gets[d] : GetDocFail(d, g)
  \/ \E w \in upds : UpdateFail(w)
  \/ \E u \in uploads : UploadFail(u)
  \/ \E a \in adds : AddFail(a)

\* A message an employee of another device sent earlier.
Earlier(u, c, n) == [NewDoc(u, c, "text", <<"a">>) EXCEPT !.timestamp = n]

InitChatState ==
  /\ adds = {} /\ upds = {} /\ uploads = {}
  /\ mounted = [d \in Devices |-> FALSE]
  /\ city = [d \in Devices |-> ""]
  /\ authNotify = [d \in Devices |-> FALSE]
  /\ gets = [d \in Devices |-> {}]
  /\ user = [d \in Devices |-> None]
  /\ subs = [d \in Devices |-> <<>>]
  /\ dirty = [d \in Devices |-> FALSE]
  /\ messages = [d \in Devices |-> <<>>]
  /\ isLoading = [d \in Devices |-> TRUE]
  /\ gate = [d \in Devices |-> "pending"]
  /\ lastMarked = [d \in Devices |-> {}]
  /\ lastFail = [op |-> None, alert |-> None]

\* The chat screen at rest, for the specifications of the other screens.
IdleChat ==
  /\ authUser = [d \in Devices |-> None]
  /\ msgs = <<>>
  /\ InitChatState

\* No document is being mapped.
IdleMap ==
  /\ docData = [f \in {"senderId"} |-> [t |-> "undefined", tag |-> ""]]
  /\ messagesData = <<>>

\* The dashboard is not mounted.
IdleDash ==
  /\ sos = <<>> /\ now = 1 /\ employee = None
  /\ dirtyAll = FALSE /\ dirtyMine = FALSE
  /\ sosRequests = <<>> /\ loading = TRUE /\ handledCount = 0
  /\ recentActivity = <<>> /\ myResponded = <<>>
  /\ todaysAlerts = <<>> /\ badge = <<"...">> /\ cards = <<>>

\* No dialog of the profile screens is in use.
IdleDlg == InitDlg

\* The profile photo at rest, nothing stored.
IdlePho ==
  /\ photo = <<>> /\ photoUploading = FALSE
  /\ pick = [pc |-> "idle", photo |-> <<>>, fileName |-> None, downloadUrl |-> <<>>]
  /\ picks = 0 /\ sPhotoUrl = <<>> /\ objects = {} /\ phAlert = None

\* The Home screen at rest, nobody signed in.
IdleHome ==
  /\ hUser = None /\ hEmail = <<>> /\ sName = "" /\ sWeather = <<>>
  /\ profile = <<>> /\ weather = <<>> /\ location = <<>> /\ refreshing = FALSE
  /\ fetch = [pc |-> "idle", run |-> None, coords |-> <<>>, latest |-> <<>>]
  /\ fetches = 0 /\ hAlert = None

\* The text fields at rest, nothing stored.
IdleFld ==
  /\ contact = "" /\ medical = "" /\ sContact = "" /\ sMedical = ""

\* No abuse report sent or stored.
IdleRep ==
  /\ reports = <<>> /\ sReports = {}

\* The other screens at rest, for each group of variables.
IdleOffChat == IdleProfile /\ IdleFmt /\ IdleMap /\ IdleDash /\ IdleDlg /\
    IdlePho /\ IdleHome /\ IdleFld /\ IdleRep

IdleOffProf == IdleChat /\ IdleFmt /\ IdleMap /\ IdleDash /\ IdleDlg /\
    IdlePho /\ IdleHome /\ IdleFld /\ IdleRep

IdleOffFmt == IdleChat /\ IdleProfile /\ IdleMap /\ IdleDash /\ IdleDlg /\
    IdlePho /\ IdleHome /\ IdleFld /\ IdleRep

IdleOffMap == IdleChat /\ IdleProfile /\ IdleFmt /\ IdleDash /\ IdleDlg /\
    IdlePho /\ IdleHome /\ IdleFld /\ IdleRep

IdleOffDash == IdleChat /\ IdleProfile /\ IdleFmt /\ IdleMap /\ IdleDlg /\
    IdlePho /\ IdleHome /\ IdleFld /\ IdleRep

IdleOffDlg == IdleChat /\ IdleProfile /\ IdleFmt /\ IdleMap /\ IdleDash /\
    IdlePho /\ IdleHome /\ IdleFld /\ IdleRep

IdleOffPho == IdleChat /\ IdleProfile /\ IdleFmt /\ IdleMap /\ IdleDash /\
    IdleDlg /\ IdleHome /\ IdleFld /\ IdleRep

IdleOffHome == IdleChat /\ IdleProfile /\ IdleFmt /\ IdleMap /\ IdleDash /\
    IdleDlg /\ IdlePho /\ IdleFld /\ IdleRep

IdleOffFld == IdleChat /\ IdleProfile /\ IdleFmt /\ IdleMap /\ IdleDash /\
    IdleDlg /\ IdlePho /\ IdleHome /\ IdleRep

IdleOffRep == IdleChat /\ IdleProfile /\ IdleFmt /\ IdleMap /\ IdleDash /\
    IdleDlg /\ IdlePho /\ IdleHome /\ IdleFld

IdleBesideDlg == IdleChat /\ IdleFmt /\ IdleMap /\ IdleDash /\ IdlePho /\
    IdleHome /\ IdleFld /\ IdleRep

IdleBesidePho == IdleChat /\ IdleFmt /\ IdleMap /\ IdleDash /\ IdleDlg /\
    IdleHome /\ IdleFld /\ IdleRep

IdleBesideHome == IdleChat /\ IdleFmt /\ IdleMap /\ IdleDash /\ IdleDlg /\
    IdlePho /\ IdleFld /\ IdleRep

IdleBesideFld == IdleChat /\ IdleFmt /\ IdleMap /\ IdleDash /\ IdleDlg /\
    IdlePho /\ IdleHome /\ IdleRep

IdleBesideRep == IdleChat /\ IdleFmt /\ IdleMap /\ IdleDash /\ IdleDlg /\
    IdlePho /\ IdleHome /\ IdleFld

\* The role gate: one device, every kind of account, sessions that start and
\* end while the chat is open, a feed that already holds a colleague's message.
InitGate ==
  /\ authUser \in [Devices -> Uids \cup {None}]
  /\ authUser["d1"] \in Accounts("d1") \cup {None}
  /\ authUser["d2"] = None
  /\ msgs = <<Earlier("e2", "pune", 1)>>
  /\ InitChatState
  /\ IdleOffChat

NextGate ==
  \/ NavActs({"d1"})
  \/ AuthActs({"d1"})
  \/ GateActs({"d1"})
  \/ FeedActs({"d1"})
  \/ TextActs({"d1"})

SpecGate == InitGate /\ [][NextGate]_vars

\* Every send handler on one device, called before and after the gate has
\* passed and with or without a route city.
InitSend ==
  /\ authUser = [d \in Devices |-> IF d = "d1" THEN "e1" ELSE None]
  /\ msgs = <<>>
  /\ InitChatState
  /\ IdleOffChat

NextSend ==
  \/ NavActs({"d1"})
  \/ GateActs({"d1"})
  \/ TextActs({"d1"})
  \/ MediaActs({"d1"})

SpecSend == InitSend /\ [][NextSend]_vars

\* The chat of one employee with every request free to fail.
InitErr ==
  /\ authUser = [d \in Devices |-> IF d = "d1" THEN "e1" ELSE None]
  /\ msgs = <<Earlier("e2", "pune", 1)>>
  /\ InitChatState
  /\ IdleOffChat

NextErr ==
  \/ NavActs({"d1"})
  \/ GateActs({"d1"})
  \/ FeedActs({"d1"})
  \/ TextActs({"d1"})
  \/ MediaActs({"d1"})
  \/ FailActs({"d1"})

SpecErr == InitErr /\ [][NextErr]_vars

\* Two employees, each on a device, viewing the feeds; a third employee's
\* message is already in the store.
InitFeed ==
  /\ authUser = [d \in Devices |-> IF d = "d1" THEN "e1" ELSE "e2"]
  /\ msgs = <<Earlier("e3", "pune", 1)>>
  /\ InitChatState
  /\ IdleOffChat

NextFeed ==
  \/ NavActs(Devices)
  \/ GateActs(Devices)
  \/ FeedActs(Devices)
  \/ TextActs(Devices)

SpecFeed == InitFeed /\ [][NextFeed]_vars

\* Two employees in and out of the chat of one city that holds a colleague's
\* message, with the program's scheduling: a registered listener is eventually
\* called for a change, and a client's queued updateDoc eventually commits.
NextLive ==
  \/ \E d \in Devices : OpenChat(d, "pune")
  \/ \E d \in Devices : LeaveChat(d)
  \/ GateActs(Devices)
  \/ FeedActs(Devices)

FairFeed(d) ==
  /\ WF_vars(\E k \in {1} : Snapshot(d, k))
  /\ WF_vars(\E w \in upds : w.by = d /\ UpdateSucceed(w))

SpecLive == InitFeed /\ [][NextLive]_vars /\ \A d \in Devices : FairFeed(d)

InitProfile == InitProfileState /\ IdleOffProf

NextProfile ==
  \/ PAuthReport
  \/ PSignOut
  \/ PLogin
  \/ \E ok \in BOOLEAN : PFetchDone(ok)
  \/ \E n \in Names : EditName(n)
  \/ SaveProfile
  \/ \E v \in BOOLEAN : ToggleNotifications(v)
  \/ WriteSucceed
  \/ WriteFail

SpecProfile == InitProfile /\ [][NextProfile]_vars

\* One metadata line rendered, for any value of the field.
InitRender == InitFmt /\ IdleOffFmt

NextRender == RenderFileSize \/ RenderDuration

SpecFmt == InitRender /\ [][NextRender]_vars

\* One document of a snapshot mapped, for any content of the document.
InitMapping == InitMap /\ IdleOffMap

NextMapping == PushMapped

SpecMap == InitMapping /\ [][NextMapping]_vars

\* Today's alerts: requests are raised as time passes, over more than a year
\* of the calendar.
InitToday == InitDash /\ sos = <<>> /\ IdleOffDash

NextToday ==
  \/ \E c \in {-1, 0, now} : NewRequest(c)
  \/ Tick
  \/ AllSnapshot

SpecToday == InitToday /\ [][NextToday]_vars

\* Handled alerts: MaxSos requests, created in the order of their ids but for
\* one of them, which may also have a null or no createdAt; responders take
\* them one by one.
CreatedAtChoices ==
  {[i \in 1..MaxSos |-> IF i = odd THEN c ELSE i] :
     odd \in 1..MaxSos, c \in -1..MaxSos}

InitHandled ==
  /\ InitDash
  /\ sos \in {[i \in 1..MaxSos |->
                 [createdAt |-> c[i], responderId |-> None, status |-> "pending"]] :
              c \in CreatedAtChoices}
  /\ IdleOffDash

NextHandled ==
  \/ \E i \in SosIds, u \in {EmpUid, "e2"} : Respond(i, u)
  \/ EmployeeSnapshot
  \/ HandledSnapshot

SpecHandled == InitHandled /\ [][NextHandled]_vars

\* Blocked users: a loaded ProfileScreen whose user blocks and unblocks
\* addresses, also while earlier writes are in flight.
InitBlocked == InitDlg /\ ProfileReady("user") /\ IdleBesideDlg

NextBlocked ==
  \/ HandleManageBlocked
  \/ \E choice \in {"cancel", "block", "unblock"} : MenuChoose(choice)
  \/ ModalCancel
  \/ \E email \in EmailInputs : SubmitBlock(email)
  \/ \E email \in EmailInputs : SubmitUnblock(email)
  \/ BlockedWriteSucceed
  \/ BlockedWriteFail

SpecBlocked == InitBlocked /\ [][NextBlocked]_vars

\* Change password on either profile screen, the account's password being
\* OldPassword; the blocked-users menu can take the modal over.
InitPassword ==
  /\ modal = None /\ modalCallback = NoCallback /\ dAlert = None
  /\ blockedUsers = <<>> /\ sBlocked = <<>> /\ bMenu = <<>>
  /\ bWrites = <<>> /\ bOutcome = None
  /\ pwTimers = <<>> /\ authOps = {} /\ sPassword = OldPassword
  /\ logoutAlert = None /\ signOuts = 0
  /\ (ProfileReady("user") \/ ProfileReady("admin"))
  /\ IdleBesideDlg

NextPassword ==
  \/ HandleChangePassword
  \/ \E password \in PasswordInputs : SubmitOld(password)
  \/ TimerFires
  \/ \E password \in PasswordInputs : SubmitNew(password)
  \/ ModalCancel
  \/ \E op \in authOps : ReauthSucceed(op)
  \/ \E op \in authOps : AuthFail(op)
  \/ \E op \in authOps : UpdatePasswordSucceed(op)
  \/ HandleManageBlocked
  \/ \E choice \in {"cancel", "block"} : MenuChoose(choice)

SpecPassword == InitPassword /\ [][NextPassword]_vars

\* Logout on either profile screen, beside the first password modal.
InitLogout ==
  /\ InitDlg
  /\ (ProfileReady("user") \/ ProfileReady("admin"))
  /\ IdleBesideDlg

NextLogout ==
  \/ HandleLogout
  \/ \E button \in {"Cancel", "Log Out"} : LogoutChoose(button)
  \/ SignOutSucceed
  \/ SignOutFail
  \/ PAuthReport
  \/ HandleChangePassword
  \/ \E password \in {<<>>, OldPassword} : SubmitOld(password)
  \/ TimerFires
  \/ ModalCancel

SpecLogout == InitLogout /\ [][NextLogout]_vars

\* The profile photo of a signed-in user, picked up to MaxPicks times.
InitPhoto == InitPho /\ ProfileReady("user") /\ IdleBesidePho

NextPhoto ==
  \/ PickImage
  \/ \E status \in {"granted", "denied"} : PermissionResult(status)
  \/ \E result \in {"canceled", "noUri", "image"} : PickerResult(result)
  \/ PickerThrows
  \/ BlobReady
  \/ UploadBytesDone
  \/ DownloadUrlDone
  \/ \E ok \in BOOLEAN : DeleteDone(ok)
  \/ UpdateDocDone
  \/ InnerTryFail

SpecPhoto == InitPhoto /\ [][NextPhoto]_vars

\* The Home tab beside the Profile tab, where the name can be edited and
\* saved; the same account may be active on another device.
InitHome == InitHomeState /\ ProfileReady("user") /\ IdleBesideHome

NextHome ==
  \/ FetchAll
  \/ \E status \in {"granted", "denied"} : HomePermission(status)
  \/ \E coords \in DeviceCoords : Position(coords)
  \/ SetDocDone
  \/ \E coords \in OtherCoords : OtherDeviceWrites(coords)
  \/ GetDocDone
  \/ FetchAllCatch
  \/ \E ok \in BOOLEAN : WeatherDone(ok)
  \/ \E ok \in BOOLEAN : FetchUserProfileDone(ok)
  \/ \E n \in Names : EditName(n)
  \/ SaveProfile
  \/ WriteSucceed

SpecHome == InitHome /\ [][NextHome]_vars

\* ProfileScreen loaded with a stored photo and blocked address: the fields
\* are edited, notifications toggled and the profile saved, every write free
\* to fail.
InitSave ==
  /\ modal = None /\ modalCallback = NoCallback /\ dAlert = None
  /\ sBlocked = <<EmailA>> /\ blockedUsers = sBlocked
  /\ bMenu = <<>> /\ bWrites = <<>> /\ bOutcome = None
  /\ pwTimers = <<>> /\ authOps = {} /\ sPassword = <<>>
  /\ logoutAlert = None /\ signOuts = 0
  /\ InitPho /\ sPhotoUrl = DownloadUrl(FileName(0))
  /\ IdleFld /\ IdleHome /\ IdleRep
  /\ ProfileReady("user")
  /\ IdleChat /\ IdleFmt /\ IdleMap /\ IdleDash

NextSave ==
  \/ \E n \in Names : EditName(n)
  \/ \E t \in Contacts : EditContact(t)
  \/ \E t \in Medicals : EditMedical(t)
  \/ \E v \in BOOLEAN : ToggleNotifications(v)
  \/ SaveProfile
  \/ WriteSucceed
  \/ WriteFail

SpecSave == InitSave /\ [][NextSave]_vars

\* ProfileScreen loaded, local and stored notifications equal: the switch is
\* toggled, also while earlier writes are pending, and every write may fail.
InitToggle ==
  /\ InitDlg /\ IdlePho /\ IdleFld /\ IdleHome /\ IdleRep
  /\ pKind = "user" /\ pAuth = PUid /\ pUser = PUid
  /\ pNotify = FALSE /\ pRoute = "profile" /\ pReport = PUid
  /\ pLoading = FALSE /\ pFetch = FALSE /\ pSaving = FALSE
  /\ pName = ""
  /\ sDoc \in [exists : {TRUE}, fullName : {""},
               notifications : {"absent", "on", "off"}]
  /\ notifications = FromStored(sDoc.notifications)
  /\ pWrites = <<>> /\ pAlert = None /\ pOutcome = None
  /\ IdleChat /\ IdleFmt /\ IdleMap /\ IdleDash

NextToggle ==
  \/ \E n \in Names : EditName(n)
  \/ \E v \in BOOLEAN : ToggleNotifications(v)
  \/ WriteSucceed
  \/ WriteFail

SpecToggle == InitToggle /\ [][NextToggle]_vars

\* Every modal of ProfileScreen: the buttons that open one, the timer of
\* the password change, Cancel and Submit with what was typed.
InitModal == InitPassword /\ pKind = "user"

NextModal ==
  \/ HandleChangePassword
  \/ HandleManageBlocked
  \/ \E choice \in {"cancel", "block", "unblock"} : MenuChoose(choice)
  \/ HandleReportAbuse
  \/ TimerFires
  \/ ModalCancel
  \/ \E value \in Typed : ModalSubmit(value)
  \/ \E op \in authOps : AuthFail(op)
  \/ BlockedWriteSucceed
  \/ \E ok \in BOOLEAN : ReportSettles(ok)

SpecModal == InitModal /\ [][NextModal]_vars

\* ------------------------------------------------------------------ C1
Employees == {u \in Uids : UsersDoc[u].exists /\ UsersDoc[u].role = "employee"}

Last(s) == s[Len(s)]

\* C1: the chat screen's user state is only ever an account whose users/{uid}
\* document exists with role 'employee'; once the gate has denied (signed
\* out, no document, another role) the screen has gone back and user is
\* unset; while user is unset no listener is registered; and every message
\* sent or in flight, and every read receipt in flight, carries the uid of an
\* employee that passed the gate.
C1_RoleGate ==
  \A d \in {"d1"} :
    /\ user[d] # None => user[d] \in Employees
    /\ gate[d] = "granted" /\ mounted[d] => user[d] \in Employees
    /\ gate[d] = "denied" => ~mounted[d] /\ user[d] = None
    /\ user[d] = None => subs[d] = <<>> /\ messages[d] = <<>>
    /\ \A a \in adds : a.doc.senderId \in Employees
    /\ \A i \in Ids : msgs[i].senderId \in Employees
    /\ \A w \in upds : Last(w.readBy) \in Employees

\* C1 witness: the gate denied a signed-in account of another role after an
\* employee session on the same device had marked the colleague's message.
C1_Witness ==
  /\ gate["d1"] = "denied" /\ authUser["d1"] = "v1" /\ ~mounted["d1"]
  /\ Includes(msgs[1].readBy, "e1")

\* ------------------------------------------------------------------ C2
\* C2: in ProfileScreen and AdminProfileScreen, once the auth listener has
\* reported no signed-in user, user is null and the navigation has been
\* replaced with the login route; while user is null the screen renders the
\* loading view only, no save is in progress and no write in flight was
\* issued without a user.
C2_AuthRedirect ==
  /\ pReport = "signedOut" => pUser = None /\ pRoute = "login"
  /\ pRoute = "profile" /\ pUser = None => View = "loading" /\ ~pSaving
  /\ \A k \in 1..Len(pWrites) : pWrites[k].uid # None

\* C2 witness: an admin saved a name, the session ended and the listener's
\* report replaced the screen with the login route.
C2_Witness ==
  /\ pKind = "admin" /\ pReport = "signedOut" /\ pRoute = "login"
  /\ sDoc.fullName = "ann"

\* ------------------------------------------------------------------ C4
\* The write of a toggle, the oldest in flight, settles for a mounted screen.
ToggleSettles ==
  /\ pWrites # <<>> /\ pWrites' = Tail(pWrites)
  /\ Head(pWrites).op = "toggle" /\ Head(pWrites).live

\* C4: when the write of handleToggleNotifications(value) fails, the local
\* notifications state is the value it had before the toggle and the error
\* alert is shown; when it succeeds, the local state and the stored field
\* both equal value. Stated for a write that settles with no later write
\* still in flight.
C4_ToggleContract ==
  [][ToggleSettles /\ Tail(pWrites) = <<>> =>
       LET w == Head(pWrites) IN
       IF pOutcome' = "failed"
       THEN /\ notifications' = w.prev
            /\ pAlert' = "Failed to update notification settings"
       ELSE /\ notifications' = w.value
            /\ sDoc'.notifications = ToStored(w.value)]_vars

\* ------------------------------------------------------------------ C3
\* C3: every backend operation that fails ends in an error alert shown to the
\* user; no failure is only logged or left unhandled.
C3_ErrorsSurface == lastFail.op # None => lastFail.alert # None

\* ------------------------------------------------------------------ C5
\* The onSnapshot callback of device d runs in this step.
SnapStep(d) == mounted[d] /\ dirty[d] /\ ~dirty'[d] /\ mounted'[d]

ListIds(list) == {list[k].id : k \in 1..Len(list)}

C5_Inv ==
  \A d \in Devices :
    /\ \A k \in 1..Len(messages[d]) : messages[d][k].city = city[d]
    /\ \A k, l \in 1..Len(messages[d]) :
         /\ k # l => messages[d][k].id # messages[d][l].id
         /\ k < l => messages[d][k].timestamp <= messages[d][l].timestamp
    /\ subs[d] # <<>> => mounted[d] /\ user[d] # None /\ city[d] # ""
    /\ Len(subs[d]) <= 1

C5_Step ==
  \A d \in Devices :
    SnapStep(d) =>
      /\ ListIds(messages'[d]) = {i \in Ids : msgs[i].city = city[d]}
      /\ Len(messages'[d]) = Cardinality(ListIds(messages'[d]))
      /\ \A k \in 1..Len(messages'[d]) :
           LET m == messages'[d][k] IN
           /\ m.senderId = msgs[m.id].senderId
           /\ m.readBy = msgs[m.id].readBy
           /\ m.timestamp = msgs[m.id].timestamp
           /\ m.type = msgs[m.id].type
           /\ m.content = msgs[m.id].content

\* C5: after each snapshot the messages list is exactly the documents of the
\* route's city, each once, as stored and in timestamp order, whatever the list
\* held before; every listed message has the route's city, ids are distinct
\* and timestamps non-decreasing; a listener exists only while city and user
\* are set, and at most one at a time.
C5_Feed == []C5_Inv /\ [][C5_Step]_vars

\* C5 witness: the store holds a message of each city and the viewer of one
\* city has received the snapshot that lists only its own.
C5_Witness ==
  /\ Len(msgs) = 2 /\ msgs[2].city = "goa"
  /\ city["d1"] = "pune" /\ Len(subs["d1"]) = 1 /\ ~dirty["d1"]
  /\ Len(messages["d1"]) = 1

\* ------------------------------------------------------------------ C6
\* The updates a snapshot list calls for, for viewer uid.
ExpectedPatches(list, uid) ==
  {[id |-> list[k].id, readBy |-> list[k].readBy \o <<uid>>] :
     k \in {n \in 1..Len(list) :
              list[n].senderId # uid /\ uid \notin Range(list[n].readBy)}}

\* C6: the updates issued for a snapshot are exactly one per listed message
\* that someone else sent and whose readBy lacks the viewer, each setting
\* readBy to the snapshot's readBy with the viewer's uid appended; every
\* update in flight was issued by such a call, so none patches the marker's own
\* message or names the marker twice.
C6_ReadPatches ==
  /\ \A d \in Devices :
       /\ mounted[d] /\ user[d] # None =>
            lastMarked[d] = ExpectedPatches(messages[d], user[d])
       /\ user[d] = None => lastMarked[d] = {}
  /\ \A w \in upds :
       /\ msgs[w.id].senderId # Last(w.readBy)
       /\ \A k, l \in 1..Len(w.readBy) : k # l => w.readBy[k] # w.readBy[l]

\* C6 witness: a viewer's snapshot listed the third employee's message,
\* already read by the other viewer, and its patch is in flight.
C6_Witness ==
  \E w \in upds : w.by = "d1" /\ w.readBy = <<"e3", "e2", "e1">>
                  /\ w \in {[id |-> x.id, readBy |-> x.readBy, by |-> "d1"] :
                              x \in lastMarked["d1"]}

\* ------------------------------------------------------------------ C7
\* Device d has a listener on the feed that holds message i of another sender.
Viewing(d, i) ==
  /\ i \in Ids /\ mounted[d] /\ subs[d] # <<>>
  /\ msgs[i].city = subs[d][1].city /\ msgs[i].senderId # subs[d][1].uid

ReadStored(d, i) == i \in Ids /\ Includes(msgs[i].readBy, authUser[d])

\* Every message device d is viewing has the viewer in its stored readBy.
AllRead(d) == \A i \in Ids : Viewing(d, i) => ReadStored(d, i)

\* C7: for every message of a city feed sent by someone else, an employee who
\* keeps that chat open eventually has their uid in the stored readBy, also
\* with another employee viewing the same chat at the same time.
C7_ReadLiveness ==
  \A d \in Devices :
    (\E i \in Ids : Viewing(d, i)) ~> (AllRead(d) \/ ~mounted[d])

\* C7 witness: both viewers are in the stored readBy of the third employee's
\* message, the first one behind the second, each with the chat still open.
C7_Witness ==
  /\ msgs[1].readBy = <<"e3", "e2", "e1">>
  /\ \A d \in Devices : mounted[d] /\ subs[d] # <<>> /\ city[d] = "pune"

\* ------------------------------------------------------------------ C8
Req(r) == [by |-> r.by, op |-> r.op, doc |-> r.doc]

\* The requests a handler started in this step.
Started ==
  {Req(r) : r \in adds' \cup uploads'} \ {Req(r) : r \in adds \cup uploads}

\* C8: a document a handler starts to create has senderId equal to the
\* screen's user, city equal to the route's city, readBy exactly [sender] and
\* the server-timestamp placeholder, and is started only with user and city
\* set (and, for text, a text that is not blank); the document the backend
\* stores is that document with a timestamp later than every stored one.
C8_Creation ==
  [][/\ \A r \in Started :
          /\ user[r.by] # None /\ city[r.by] # ""
          /\ r.doc.senderId = user[r.by]
          /\ r.doc.city = city[r.by]
          /\ r.doc.readBy = <<user[r.by]>>
          /\ r.doc.timestamp = 0
          /\ r.doc.type = "text" => Trim(r.doc.content) # <<>>
     /\ Len(msgs') > Len(msgs) =>
          LET new == msgs'[Len(msgs')] IN
          /\ Len(msgs') = Len(msgs) + 1
          /\ \E a \in adds : new = [a.doc EXCEPT !.timestamp = new.timestamp]
          /\ new.readBy = <<new.senderId>>
          /\ \A i \in Ids : msgs[i].timestamp < new.timestamp]_vars

\* C8 witness: a location message and a file, stored as type 'document', have
\* been created.
C8_Witness ==
  /\ Len(msgs) = 2
  /\ msgs[1].type = "location" /\ msgs[2].type = "document"
  /\ msgs[2].senderId = "e1" /\ msgs[2].city = "goa"

\* ------------------------------------------------------------------ C9
DigitVal(ch) == CHOOSE n \in 0..9 : DigitChar(n) = ch

\* String of digits to number.
RECURSIVE Value(_)
Value(txt) ==
  IF txt = <<>> THEN 0
  ELSE 10 * Value(SubSeq(txt, 1, Len(txt) - 1)) + DigitVal(txt[Len(txt)])

\* Position of the first ch in txt, 0 if there is none.
Pos(txt, ch) ==
  IF \E k \in 1..Len(txt) : txt[k] = ch
  THEN CHOOSE k \in 1..Len(txt) : txt[k] = ch /\ \A l \in 1..(k - 1) : txt[l] # ch
  ELSE 0

\* num / den rounded to one decimal, followed by the unit.
Rounded(txt, num, den, unit) ==
  \E n \in ((10 * num) \div den)..((10 * num) \div den + 1) :
    /\ 2 * (10 * num - n * den) <= den /\ 2 * (n * den - 10 * num) <= den
    /\ txt = Digits(n \div 10) \o <<".">> \o Digits(n % 10) \o <<unit>>

\* C9: formatFileSize gives 'Unknown size' for a missing or zero size,
\* '<bytes> B' for 1 <= bytes < 1024, bytes/1024 rounded to one decimal and
\* ' KB' for 1024 <= bytes < 1048576, bytes/1048576 rounded to one decimal and
\* ' MB' from 1048576 on; and the number shown with unit KB is below 1024.
C9_FileSize ==
  meta.field = "fileSize" /\ shown # <<>> =>
    LET b == meta.v.val IN
    /\ ~meta.v.def \/ b = 0 => shown = <<"Unknown size">>
    /\ meta.v.def /\ 1 <= b /\ b < 1024 => shown = Digits(b) \o <<" B">>
    /\ meta.v.def /\ 1024 <= b /\ b < 1048576 => Rounded(shown, b, 1024, " KB")
    /\ meta.v.def /\ b >= 1048576 => Rounded(shown, b, 1048576, " MB")
    /\ Last(shown) = " KB" =>
         Value(SubSeq(shown, 1, Pos(shown, ".") - 1)) < 1024

\* ------------------------------------------------------------------ C10
\* C10: formatDuration gives '0:00' for a missing or zero duration; for a
\* duration s > 0 it gives 'm:ss' with m = floor(s / 60) and ss =
\* floor(s mod 60) in exactly two digits, so ss is in 00..59 and m*60 + ss =
\* floor(s).
C10_Duration ==
  meta.field = "duration" /\ shown # <<>> =>
    IF ~meta.v.def \/ meta.v.val = 0
    THEN shown = <<"0", ":", "0", "0">>
    ELSE LET p == Pos(shown, ":")
             m == Value(SubSeq(shown, 1, p - 1))
             sstxt == SubSeq(shown, p + 1, Len(shown))
             ss == Value(sstxt)
             floor_s == meta.v.val \div 1000
         IN /\ p > 1 /\ Len(sstxt) = 2
            /\ \A k \in 1..Len(shown) : k # p => shown[k] \in {DigitChar(n) : n \in 0..9}
            /\ m = floor_s \div 60
            /\ ss = floor_s % 60
            /\ ss \in 0..59
            /\ m * 60 + ss = floor_s

\* C10 witness: 61.999 seconds and 600.5 seconds have been rendered, each with
\* a seconds part below ten.
C10_Witness ==
  /\ meta.field = "duration" /\ meta.v.def
  /\ meta.v.val \in {61999, 600500}
  /\ shown \in {<<"1", ":", "0", "1">>, <<"1", "0", ":", "0", "0">>}

\* ------------------------------------------------------------------ C11
\* C11: every entry of the messages list has all its fields defined whatever
\* the stored document contains: absent senderId, senderName, senderEmail,
\* senderCity, city and content are '', an absent type is 'text', a readBy that
\* is not an array is [], an absent metadata is {}, and a timestamp without a
\* toDate function is null.
C11_Defaults ==
  \A k \in 1..Len(messagesData) :
    LET e == messagesData[k] IN
    /\ DOMAIN e = DataFields \cup {"id"}
    /\ \A f \in DOMAIN e : e[f].t # "undefined"
    /\ \A f \in {"senderId", "senderName", "senderEmail", "senderCity", "city",
                 "content"} :
         docData[f] = JsUndefined => e[f] = Str("")
    /\ docData.type = JsUndefined => e.type = Str("text")
    /\ docData.readBy.t # "array" => e.readBy = EmptyArray
    /\ docData.metadata = JsUndefined => e.metadata = EmptyObject
    /\ docData.timestamp.t # "timestamp" => e.timestamp = JsNull

\* C11 witness: a document without senderId whose readBy is a string has been
\* mapped.
C11_Witness ==
  /\ messagesData # <<>>
  /\ docData.senderId = JsUndefined /\ docData.readBy = Str("x")
  /\ messagesData[1].readBy = EmptyArray

\* ------------------------------------------------------------------ C12
\* The entries of list created on the calendar day of instant t, in order.
CreatedOnDayOf(list, t) ==
  LET OnDay(a) == a.createdAt > 0 /\ a.createdAt \div DayLen = t \div DayLen
  IN SelectSeq(list, OnDay)

\* What holds of the section whatever the badge shows: sosRequests is in
\* createdAt-descending order, todaysAlerts is its subsequence of the
\* requests created on the day of a render, and at most the first 3 entries
\* of todaysAlerts are rendered.
TodayView ==
  /\ \A k, l \in 1..Len(sosRequests) :
       k < l => sosRequests[k].createdAt >= sosRequests[l].createdAt
  /\ \E t \in 1..now : todaysAlerts = CreatedOnDayOf(sosRequests, t)
  /\ Len(cards) <= 3
  /\ \A k \in 1..Len(cards) : cards[k] = todaysAlerts[k].id

\* A snapshot of all requests is delivered and the screen renders.
AllSnapStep == dirtyAll /\ ~dirtyAll'

\* At that render todaysAlerts holds the requests of the current day.
TodayAtRender ==
  AllSnapStep =>
    /\ todaysAlerts' = CreatedOnDayOf(sosRequests', now)
    /\ \A i \in SosIds :
         (\E k \in 1..Len(todaysAlerts') : todaysAlerts'[k].id = i)
           <=> sos[i].createdAt > 0
               /\ sos[i].createdAt \div DayLen = now \div DayLen
    /\ Len(cards') = (IF Len(todaysAlerts') < 3 THEN Len(todaysAlerts') ELSE 3)

\* C12 as stated: todaysAlerts is exactly the subsequence of sosRequests, in
\* createdAt-descending order, created on the current local calendar day,
\* requests without createdAt excluded; the badge shows the size of
\* todaysAlerts while at most its first 3 entries are rendered.
C12_TodaysAlerts ==
  [](TodayView /\ badge = Digits(Len(todaysAlerts))) /\ [][TodayAtRender]_vars

\* C12, amended: the same, the badge showing the size of todaysAlerts once the
\* first snapshot has arrived and '...' while loading.
C12_TodaysAlertsLoaded ==
  /\ [](/\ TodayView
        /\ badge = (IF loading THEN <<"...">> ELSE Digits(Len(todaysAlerts))))
  /\ [][TodayAtRender]_vars

\* C12 witness: four requests of today are counted by the badge, three of
\* them rendered, and a request with a null createdAt is left out.
C12_Witness ==
  /\ ~loading /\ Len(sosRequests) = 4 /\ sosRequests[4].createdAt = 0
  /\ Len(todaysAlerts) = 3 /\ badge = <<"3">> /\ Len(cards) = 3

\* ------------------------------------------------------------------ C18
\* A snapshot of the employee's responded requests is delivered.
HandledSnapStep == dirtyMine /\ ~dirtyMine'

Min(a, b) == IF a < b THEN a ELSE b

\* createdAt in milliseconds, a missing one counting as 0.
CreatedOrZero(e) == IF e.createdAt > 0 THEN e.createdAt ELSE 0

HandledAtSnapshot ==
  HandledSnapStep =>
    LET mine == {i \in SosIds : sos[i].responderId = employee
                                /\ sos[i].status = "responded"}
    IN /\ handledCount' = Cardinality(mine)
       /\ {myResponded'[k].id : k \in 1..Len(myResponded')} = mine
       /\ \A k \in 1..Len(myResponded') :
            myResponded'[k].createdAt = sos[myResponded'[k].id].createdAt
       /\ \A k, l \in 1..Len(myResponded') :
            k < l => CreatedOrZero(myResponded'[k])
                       >= CreatedOrZero(myResponded'[l])

\* C18: after every snapshot of the employee's responded requests,
\* handledCount is the number of documents with responderId equal to the
\* employee's uid and status 'responded'; myResponded holds all of them sorted
\* by createdAt descending, a missing createdAt counting as 0; recentActivity
\* is the first min(5, handledCount) entries of myResponded; and
\* myResponded.length equals handledCount.
C18_Handled ==
  /\ [](/\ Len(myResponded) = handledCount
        /\ recentActivity = SubSeq(myResponded, 1, Min(5, handledCount)))
  /\ [][HandledAtSnapshot]_vars

\* C18 witness: all six requests are the employee's, five of them listed as
\* recent, and the one without createdAt comes last.
C18_Witness ==
  /\ handledCount = 6 /\ Len(recentActivity) = 5
  /\ myResponded[6].createdAt = -1 /\ myResponded[6].id < 6

\* ------------------------------------------------------------------ C13
\* The list after an accepted input, and the write that carries it.
Accepted(updated) ==
  /\ blockedUsers' = updated
  /\ bWrites' = Append(bWrites, [op |-> modalCallback.kind, updated |-> updated,
                                 before |-> blockedUsers])

\* The Block User or Unblock User modal closes: nothing changes, or an
\* address that can be blocked (unblocked) was given.
BlockedModalCloses ==
  /\ modal = "blockUser" /\ modal' = None =>
       \/ UNCHANGED <<blockedUsers, bWrites>>
       \/ \E email \in EmailInputs :
            /\ email # <<>> /\ EmailValid(email)
            /\ ~Includes(blockedUsers, email)
            /\ Accepted(Append(blockedUsers, email))
  /\ modal = "unblockUser" /\ modal' = None =>
       \/ UNCHANGED <<blockedUsers, bWrites>>
       \/ \E email \in EmailInputs :
            /\ email # <<>> /\ Includes(blockedUsers, email)
            /\ Accepted(Without(blockedUsers, email))

\* The last blockedUsers write in flight settles.
BlockedWriteSettles ==
  bWrites # <<>> /\ bWrites' = <<>> =>
    IF bOutcome' = "failed"
    THEN blockedUsers' = Head(bWrites).before /\ dAlert' = "Error"
    ELSE sBlocked' = blockedUsers'

\* C13: Block User and Unblock User update blockedUsers optimistically and
\* write the whole updated list; when that write fails blockedUsers is the list
\* as it was before the operation and an error alert is shown; when it
\* succeeds the stored blockedUsers equals the local list (stated for a write
\* that settles with no later write still in flight); an input that is empty,
\* invalid, already blocked or not blocked changes nothing and writes nothing.
C13_BlockRollback == [][BlockedModalCloses /\ BlockedWriteSettles]_vars

\* ------------------------------------------------------------------ C14
\* The auth calls started in this step.
AuthStarted == authOps' \ authOps

\* How a password modal may close: nothing happens (cancel, empty value); the
\* first one arms the second with a non-empty current password; the second
\* one shows the length error (ProfileScreen, fewer than 6 characters) or
\* starts reauthenticate with the current password given in the first.
PasswordModalCloses ==
  /\ modal = "changePasswordOld" /\ modal' = None =>
       \/ UNCHANGED <<pwTimers, authOps, dAlert>>
       \/ /\ \E old \in PasswordInputs \ {<<>>} : pwTimers' = Append(pwTimers, old)
          /\ UNCHANGED <<authOps, dAlert>>
  /\ modal = "changePasswordNew" /\ modal' = None =>
       \/ UNCHANGED <<pwTimers, authOps, dAlert>>
       \/ /\ pKind = "user" /\ authOps' = authOps
          /\ dAlert' = "Password must be at least 6 characters long."
       \/ \E new \in PasswordInputs \ {<<>>} :
            /\ pKind = "user" => Len(new) >= 6
            /\ modalCallback.old # <<>>
            /\ AuthStarted = {[step |-> "reauthenticate",
                               old |-> modalCallback.old, new |-> new]}

\* Auth calls start nowhere else: reauthenticate when the second modal is
\* submitted, updatePassword when the reauthenticate of the same flow has
\* succeeded against the account's password.
AuthCallOrder ==
  \A op \in AuthStarted :
    IF op.step = "reauthenticate"
    THEN modal = "changePasswordNew" /\ modal' = None
    ELSE /\ [op EXCEPT !.step = "reauthenticate"] \in authOps
         /\ op.old = sPassword /\ op.old # <<>> /\ op.new # <<>>

\* C14: updatePassword is called only after a non-empty current password was
\* submitted in the first modal, a non-empty new password in the second, and
\* reauthenticateWithCredential with that current password succeeded;
\* cancelling or submitting an empty value at either step makes no auth call;
\* in ProfileScreen a new password shorter than 6 characters makes no auth
\* call and shows an error alert.
C14_PasswordOrder ==
  /\ [](/\ \A k \in 1..Len(pwTimers) : pwTimers[k] # <<>>
        /\ modalCallback.kind = "new" => modalCallback.old # <<>>
        /\ \A op \in authOps :
             /\ op.old # <<>> /\ op.new # <<>>
             /\ pKind = "user" => Len(op.new) >= 6)
  /\ [][PasswordModalCloses /\ AuthCallOrder]_vars

\* C14 witness: the password has been changed after a first attempt with a
\* wrong current password, the blocked-users modal having been opened and
\* closed in between.
C14_Witness ==
  /\ sPassword = NewPassword /\ dAlert = "Success"
  /\ modalCallback.kind = "block" /\ modal = None

\* ------------------------------------------------------------------ C15
\* A signOut call starts only from the "Log Out" button of the open alert.
SignOutStarts ==
  /\ signOuts' > signOuts => logoutAlert = "open" /\ logoutAlert' = "Log Out"
  /\ logoutAlert = "open" /\ logoutAlert' = "Cancel" => signOuts' = signOuts

\* A signOut call ends: resolved, nobody is signed in and a mounted profile
\* screen has its listener notified; rejected, "Logout Failed" is shown and
\* the session, the user state and the route are as they were.
SignOutEnds ==
  signOuts' < signOuts =>
    \/ /\ pAuth' = None
       /\ pRoute = "profile" /\ pUser # None => pNotify'
       /\ UNCHANGED <<pUser, pRoute, dAlert>>
    \/ /\ dAlert' = "Logout Failed"
       /\ UNCHANGED <<pAuth, pUser, pRoute, pNotify>>

\* The auth listener, told that nobody is signed in: user is null and the
\* route is replaced with login.
ListenerRuns ==
  pNotify /\ ~pNotify' /\ pAuth = None => pUser' = None /\ pRoute' = "login"

\* C15: signOut is called only after the user chooses "Log Out" in the
\* confirmation alert and never on "Cancel"; after a successful signOut the
\* auth listener sets user to null and navigation is replaced with the login
\* route; a failed signOut leaves the user signed in on the profile screen
\* and shows "Logout Failed".
C15_Logout ==
  /\ [](/\ pAuth # None => pUser = pAuth /\ pRoute = "profile"
        /\ pAuth = None =>
             \/ pRoute = "profile" /\ pNotify
             \/ pRoute = "login" /\ pUser = None)
  /\ [][SignOutStarts /\ SignOutEnds /\ ListenerRuns]_vars

\* C15 witness: a first signOut failed, a second one succeeded and the
\* listener has replaced the route.
C15_Witness ==
  /\ dAlert = "Logout Failed" /\ logoutAlert = "Log Out"
  /\ pAuth = None /\ pUser = None /\ pRoute = "login" /\ signOuts = 0

\* ------------------------------------------------------------------ C16
\* While pickImage waits past uploadBytes its object is in storage, and past
\* getDownloadURL it holds the object's URL; photoUploading is true exactly
\* from the picked image to the exit.
PickProgress ==
  /\ pick.pc \in {"getDownloadURL", "deleteObject", "updateDoc"} =>
       pick.fileName \in objects
  /\ pick.pc \in {"deleteObject", "updateDoc"} =>
       pick.downloadUrl = DownloadUrl(pick.fileName)
  /\ pick.pc \in {"idle", "permission", "picker"} => ~photoUploading

\* photoUrl is written by the settled updateDoc only, an object is deleted by
\* the settled deleteObject only, and deleteObject settling either way is
\* followed by updateDoc; a denied permission or a cancelled picker ends
\* pickImage with storage and document as they were.
PickSteps ==
  /\ sPhotoUrl' # sPhotoUrl =>
       pick.pc = "updateDoc" /\ sPhotoUrl' = pick.downloadUrl
  /\ objects' # objects =>
       \/ pick.pc = "uploadBytes" /\ objects' = objects \cup {pick.fileName}
       \/ /\ pick.pc = "deleteObject"
          /\ objects' = objects \ {RefName(pick.photo)}
          /\ pick.fileName \in objects'
  /\ pick.pc = "deleteObject" /\ pick' # pick =>
       pick'.pc = "updateDoc" /\ photo' = pick.downloadUrl
  /\ pick.pc \in {"permission", "picker"} /\ pick'.pc = "idle" =>
       UNCHANGED <<objects, sPhotoUrl, photo>>

\* C16: in ProfileScreen.pickImage the user document's photoUrl is written
\* only after the new image's upload and download-URL retrieval have both
\* succeeded; the previous photo object is deleted only after that success,
\* and a failure to delete it does not prevent the photoUrl write; when
\* permission is denied or the picker is cancelled nothing is uploaded,
\* deleted or written; photoUploading is false again on every exit path.
C16_PhotoOrder == []PickProgress /\ [][PickSteps]_vars

\* C16 witness: the old object could not be deleted and the new photoUrl is
\* stored all the same.
C16_Witness ==
  /\ pick.pc = "idle" /\ phAlert = "Success" /\ ~photoUploading
  /\ FileName(0) \in objects /\ FileName(1) \in objects
  /\ sPhotoUrl = DownloadUrl(FileName(1))

\* ------------------------------------------------------------------ C17
\* The media and audio requests among S, whichever instance they belong to.
MediaReqs(S) == {Req(r) : r \in {x \in S : x.op \in {"media", "audio"}}}

\* The requests that leave the backend in this step.
Settled == {r \in adds \cup uploads : r \notin adds' \cup uploads'}

\* The alert of the catch block of handleSendMedia and handleSendAudio.
FailedToSend(op) ==
  IF op = "media" THEN "Failed to send media" ELSE "Failed to send audio"

\* C17: handleSendMedia and handleSendAudio create a message document only
\* after the file upload and download-URL retrieval have succeeded; on any
\* failure no message document is created and a "Failed to send" alert is
\* shown; media kind "file" is stored as type "document" and "image",
\* "video", "audio" are stored unchanged; isLoading is set back to false on
\* both the success and the failure path.
C17_MediaSend ==
  [][/\ MediaReqs(adds') \ MediaReqs(adds) \subseteq MediaReqs(uploads)
     /\ \A r \in MediaReqs(uploads') \ MediaReqs(uploads) :
          LET kind == r.doc.content[1] IN
          /\ kind \in MediaKinds
          /\ r.op = "audio" => kind = "audio"
          /\ r.doc.type = IF kind = "file" THEN "document" ELSE kind
     /\ mounted' = mounted =>
          \A r \in Settled :
            r.op \in {"media", "audio"} =>
              /\ r.live => ~isLoading'[r.by]
              /\ IF Len(msgs') > Len(msgs)
                 THEN r \in adds /\ msgs'[Len(msgs')].type = r.doc.type
                 ELSE /\ msgs' = msgs
                      /\ lastFail' = [op |-> r.op, alert |-> FailedToSend(r.op)]]_vars

\* C17 witness: an audio send has failed and a file has been sent after it,
\* stored as 'document'; nothing is in flight and isLoading is false.
C17_Witness ==
  /\ Len(msgs) = 2 /\ msgs[2].type = "document"
  /\ msgs[2].content = <<"file", "shared">>
  /\ lastFail.op = "audio" /\ lastFail.alert = "Failed to send audio"
  /\ adds = {} /\ uploads = {} /\ mounted["d1"] /\ ~isLoading["d1"]

\* ------------------------------------------------------------------ C19
\* The names stored in users/{uid}: the name field and the fullName that
\* saveProfile writes.
StoredNames == IF sDoc.exists THEN {sName, sDoc.fullName} \ {""} ELSE {}

\* The header, were nothing stored.
Fallback == IF hUser # None /\ hEmail # <<>> THEN LocalPart(hEmail) ELSE "User"

\* fetchUserProfile has read the document in this step.
ProfileRead ==
  /\ fetch.pc = "fetchUserProfile" /\ fetch'.pc = "idle"
  /\ profile' # <<>> \/ ~sDoc.exists

\* C19: the Home header shows the name stored in the user's users/{uid}
\* document whenever one is stored there (including a name the user saved
\* from the Profile screen), otherwise the part of the account email before
\* '@', otherwise 'User'. Stated for the render that follows a read of the
\* document.
C19_GreetingName ==
  [][ProfileRead =>
       IF StoredNames # {} THEN HomeName' \in StoredNames
       ELSE HomeName' = Fallback]_vars

\* ------------------------------------------------------------------ C20
\* fetchAll returns from the permission request.
PermissionEnds == fetch.pc = "permission" /\ fetch'.pc = "idle"

\* The weather request starts in this step.
WeatherRequested == fetch.pc # "weather" /\ fetch'.pc = "weather"

\* C20: in HomeScreen.fetchAll, when location permission is not granted
\* nothing is written to the store and no weather request is made; otherwise
\* the device coordinates are written to weather/{uid} before the weather
\* request, the weather request uses the coordinates read back from that
\* document (the device coordinates when none are stored), and a failed
\* weather request sets weather to null without preventing the profile
\* fetch; onRefresh always ends with refreshing false.
C20_FetchOrder ==
  /\ [](fetch.pc = "idle" => ~refreshing)
  /\ [][/\ PermissionEnds => UNCHANGED <<sWeather, weather>>
        /\ fetch'.pc = "getDoc" /\ fetch.pc # "getDoc" =>
             fetch.pc = "setDoc" /\ sWeather' = fetch.coords
        /\ WeatherRequested /\ hUser # None =>
             /\ fetch.pc = "getDoc"
             /\ fetch'.latest = IF sWeather # <<>> THEN sWeather ELSE fetch.coords
        /\ WeatherRequested /\ hUser = None =>
             fetch.pc = "position" /\ fetch'.latest = location'
        /\ fetch.pc = "weather" /\ fetch' # fetch =>
             /\ weather' \in {<<>>, <<"data">>}
             /\ hUser # None => fetch'.pc = "fetchUserProfile"]_vars

\* ------------------------------------------------------------------ C21
\* The saveProfile writes in flight.
SavesInFlight == {k \in 1..Len(pWrites) : pWrites[k].op = "save"}

\* saveProfile has called updateDoc in this step.
SaveStarts ==
  /\ Len(pWrites') = Len(pWrites) + 1
  /\ pWrites'[Len(pWrites')].op = "save"

\* The write of saveProfile, the oldest in flight, settles in this step.
SaveSettles ==
  pWrites # <<>> /\ pWrites' = Tail(pWrites) /\ Head(pWrites).op = "save"

\* C21: saving is true exactly from the start of saveProfile's write until
\* that write settles and is false again after both success and failure, each
\* of which shows an alert; at most one saveProfile write is in flight at any
\* time; the write carries the current local values of fullName, contact,
\* medical, notifications, photoUrl and blockedUsers.
C21_SaveInFlight ==
  /\ [](/\ pSaving <=> SavesInFlight # {}
        /\ Cardinality(SavesInFlight) <= 1)
  /\ [][/\ SaveStarts =>
             LET w == pWrites'[Len(pWrites')] IN
             /\ w.fields = [fullName |-> pName,
                            notifications |-> ToStored(notifications)]
             /\ w.more.set = {"contact", "medical", "photoUrl", "blockedUsers"}
             /\ w.more.contact = contact /\ w.more.medical = medical
             /\ w.more.photoUrl = photo /\ w.more.blockedUsers = blockedUsers
        /\ SaveSettles =>
             /\ ~pSaving'
             /\ pAlert' = IF pOutcome' = "ok" THEN "Profile Updated"
                          ELSE "Failed to update profile"]_vars

\* C21 witness: a save with every field edited was stored, and a later save
\* has failed.
C21_Witness ==
  /\ sDoc.fullName = "ann" /\ sContact = "555" /\ sMedical = "asthma"
  /\ sBlocked = <<EmailA>> /\ sDoc.notifications = "off"
  /\ sPhotoUrl = DownloadUrl(FileName(0))
  /\ pAlert = "Failed to update profile" /\ ~pSaving /\ pWrites = <<>>
  /\ contact = ""

\* ------------------------------------------------------------------ C22
\* C22: after any sequence of notification toggles, including a second
\* toggle made while the first write is still pending, once every write has
\* succeeded or failed the local notifications state equals the
\* notifications value stored in users/{uid}.
C22_ToggleConverges ==
  pWrites = <<>> => notifications = FromStored(sDoc.notifications)

\* ------------------------------------------------------------------ C23
\* No element of the list occurs twice.
NoDuplicates(list) ==
  \A j, k \in 1..Len(list) : list[j] = list[k] => j = k

\* C23: after any sequence of Block User and Unblock User operations,
\* including one started while an earlier write is still pending, once every
\* write has succeeded or failed the local blockedUsers list equals the
\* blockedUsers list stored in users/{uid}, and it never contains the same
\* email twice.
C23_BlockedConverges ==
  /\ NoDuplicates(blockedUsers)
  /\ bWrites = <<>> => blockedUsers = sBlocked

\* ------------------------------------------------------------------ C24
\* C24: once a viewer's uid is contained in a message's stored readBy it
\* remains contained in every later state, also when several employees have
\* the same city chat open and mark the same message concurrently.
C24_ReadByMonotonic ==
  [][\A i \in Ids : \A u \in Uids :
       Includes(msgs[i].readBy, u) => Includes(msgs'[i].readBy, u)]_vars

\* ------------------------------------------------------------------ C25
\* renderMessage: isRead = item.readBy.length > 1
IsRead(item) == Len(item.readBy) > 1

\* readBy holds the sender and no uid twice.
ReadByShape(m) ==
  /\ Includes(m.readBy, m.senderId)
  /\ \A j, k \in 1..Len(m.readBy) : m.readBy[j] = m.readBy[k] => j = k

\* C25: in every reachable store state readBy contains the message's senderId
\* and contains no uid twice, under any interleaving of viewers; hence the
\* double-check receipt (readBy.length > 1) is shown if and only if at least
\* one user other than the sender is in readBy.
C25_ReadByShape ==
  /\ \A i \in Ids : ReadByShape(msgs[i])
  /\ \A d \in Devices : \A k \in 1..Len(messages[d]) :
       LET item == messages[d][k] IN
       /\ ReadByShape(item)
       /\ IsRead(item) <=>
            \E u \in Uids : u # item.senderId /\ Includes(item.readBy, u)

\* C25 witness: the sender's screen shows the receipt of a message it sent,
\* read by the other employee, beside a message both viewers have marked.
C25_Witness ==
  /\ Len(messages["d1"]) = 2
  /\ messages["d1"][2].senderId = "e1"
  /\ messages["d1"][2].readBy = <<"e1", "e2">>
  /\ Len(messages["d1"][1].readBy) = 3

\* ------------------------------------------------------------------ C26
\* The handler installed together with each modal kind.
InstalledWith(kind) ==
  CASE kind = "changePasswordOld" -> "old"
    [] kind = "changePasswordNew" -> "new"
    [] kind = "blockUser" -> "block"
    [] kind = "unblockUser" -> "unblock"
    [] kind = "reportAbuse" -> "report"

Passwords == {OldPassword, NewPassword}

\* C26: in ProfileScreen, whenever a modal input is visible the stored
\* modalCallback is the handler installed together with that modal kind,
\* under every interleaving of button presses and the 300 ms change-password
\* timer; so a value typed into a password modal is never passed to the
\* block, unblock or report-abuse handler and never written to the document
\* store.
C26_ModalCallback ==
  /\ [](/\ modal # None => modalCallback.kind = InstalledWith(modal)
        /\ \A k \in 1..Len(blockedUsers) : blockedUsers[k] \notin Passwords
        /\ \A k \in 1..Len(sBlocked) : sBlocked[k] \notin Passwords
        /\ \A k \in 1..Len(bWrites) : \A j \in 1..Len(bWrites[k].updated) :
             bWrites[k].updated[j] \notin Passwords
        /\ \A k \in 1..Len(reports) : reports[k] \notin Passwords
        /\ sReports \cap Passwords = {})
  /\ [][(\/ bWrites' # bWrites /\ Len(bWrites') > Len(bWrites)
         \/ Len(reports') > Len(reports)
         \/ modalCallback.kind \in {"block", "unblock", "report"}
              /\ modal # None /\ modal' = None) =>
          modal \in {"blockUser", "unblockUser", "reportAbuse"}]_vars

\* C26 witness: the timer of a password change has replaced the Block User
\* modal the user had opened meanwhile, after a report was stored.
C26_Witness ==
  /\ modal = "changePasswordNew" /\ modalCallback.kind = "new"
  /\ sBlocked = <<EmailA>> /\ sReports # {} /\ pwTimers = <<>>
  /\ dAlert = "Blocked"

\* ------------------------------------------------------------------ C27
\* pickImage ends in the catch of its inner try.
EndsWithUploadError ==
  pick.pc # "idle" /\ pick'.pc = "idle" /\ phAlert' = "Upload Error"

\* C27: whenever ProfileScreen.pickImage ends with an "Upload Error" alert,
\* the locally shown photo equals the photoUrl stored in users/{uid}, and the
\* storage object that stored photoUrl refers to has not been deleted.
C27_PhotoConsistent ==
  [][EndsWithUploadError =>
       /\ photo' = sPhotoUrl'
       /\ sPhotoUrl' # <<>> => RefName(sPhotoUrl') \in objects']_vars

====
